---- MODULE Spec2Model ----
(***************************************************************************)
(* Resume / job-description matching core of ats-optimizer:                *)
(*   src/analyzer/keywords.py  keyword extraction and alias normalization  *)
(*   src/analyzer/scorer.py    five-component ATS scorer                   *)
(* Texts are strings; every text operation of the source (str.lower,       *)
(* str.strip, str.find, the re patterns) is computed character by          *)
(* character on them.                                                      *)
(***************************************************************************)
EXTENDS Integers, Sequences, FiniteSets, TLC

(***************************************************************************)
(* Python str primitives                                                   *)
(***************************************************************************)
LOWER == "abcdefghijklmnopqrstuvwxyz"

UPPER == "ABCDEFGHIJKLMNOPQRSTUVWXYZ"

DIGITS == "0123456789"

CharsOf(s) == {SubSeq(s, i, i) : i \in 1..Len(s)}

LowerChars == CharsOf(LOWER)

UpperChars == CharsOf(UPPER)

Letters == LowerChars \cup UpperChars

DigitChars == CharsOf(DIGITS)

\* \w of the re module (ASCII part)
WordChars == Letters \cup DigitChars \cup {"_"}

\* \s of the re module; also what str.strip and str.split treat as blank
Whitespace == {" ", "\t", "\n", "\r"}

SetMin(S) == CHOOSE x \in S : \A y \in S : x <= y

SetMax(S) == CHOOSE x \in S : \A y \in S : x >= y

\* s[i-1] of Python, "" outside the string
CharAt(s, i) == IF 1 <= i /\ i <= Len(s) THEN SubSeq(s, i, i) ELSE ""

ToLowerChar(c) ==
  IF c \in UpperChars
    THEN LET k == CHOOSE j \in 1..Len(UPPER) : SubSeq(UPPER, j, j) = c
         IN  SubSeq(LOWER, k, k)
    ELSE c

\* str.lower()
RECURSIVE lower(_)
lower(s) ==
  IF Len(s) = 0 THEN ""
  ELSE IF Len(s) = 1 THEN ToLowerChar(s)
  ELSE LET h == Len(s) \div 2
       IN  lower(SubSeq(s, 1, h)) \o lower(SubSeq(s, h + 1, Len(s)))

\* str.strip()
strip(s) ==
  LET solid == {i \in 1..Len(s) : CharAt(s, i) \notin Whitespace}
  IN  IF solid = {} THEN "" ELSE SubSeq(s, SetMin(solid), SetMax(solid))

\* fault: a word at the start of the text is not counted
word_count_inner(s) ==
  Cardinality({i \in 2..Len(s) :
                 /\ CharAt(s, i) \notin Whitespace
                 /\ CharAt(s, i - 1) \in Whitespace})

\* len(s.split())
word_count(s) ==
  Cardinality({i \in 1..Len(s) :
                 /\ CharAt(s, i) \notin Whitespace
                 /\ (i = 1 \/ CharAt(s, i - 1) \in Whitespace)})

\* 1-based offsets at which sub occurs in s
Occurrences(s, sub) ==
  {i \in 1..(Len(s) - Len(sub) + 1) : SubSeq(s, i, i + Len(sub) - 1) = sub}

\* sub in s
contains(s, sub) == Occurrences(s, sub) # {}

\* s.find(sub): 0-based offset of the first occurrence, -1 if none
find(s, sub) ==
  LET hits == Occurrences(s, sub)
  IN  IF hits = {} THEN -1 ELSE SetMin(hits) - 1

\* s.count(sub): non-overlapping occurrences, scanned left to right
RECURSIVE CountFrom(_, _, _)
CountFrom(hits, n, i) ==
  LET rest == {j \in hits : j >= i}
  IN  IF rest = {} THEN 0 ELSE 1 + CountFrom(hits, n, SetMin(rest) + n)

count(s, sub) == CountFrom(Occurrences(s, sub), Len(sub), 1)

\* fault: the slice left out
Take_all(seq, n) == seq

\* seq[:n] for n >= 0
Take(seq, n) == SubSeq(seq, 1, IF n < Len(seq) THEN n ELSE Len(seq))

\* a Python list built by a comprehension or by a loop of appends: the
\* function f on 1..n as a sequence value, each element computed once
List(f) == f \o <<>>

\* None
None == "<None>"

\* dict.get(key, default)
Get(d, key, default) == IF key \in DOMAIN d THEN d[key] ELSE default

\* sorted(seq, key=Key, reverse=True): stable, descending
SortedDesc(seq, Key(_)) ==
  LET n == Len(seq)
      keys == List([i \in 1..n |-> Key(seq[i])])
      rank == List([i \in 1..n |->
                      1 + Cardinality({j \in 1..n :
                            \/ keys[j] > keys[i]
                            \/ (keys[j] = keys[i] /\ j < i)})])
  IN  List([r \in 1..n |-> seq[CHOOSE i \in 1..n : rank[i] = r]])

\* the indices of seq that hold the first occurrence of their Key, ascending
FirstSeen(seq, Key(_)) ==
  LET keys == List([i \in 1..Len(seq) |-> Key(seq[i])])
      IsFirst(i) == \A j \in 1..(i - 1) : keys[j] # keys[i]
  IN  SelectSeq([i \in 1..Len(seq) |-> i], IsFirst)

(***************************************************************************)
(* keywords.py: tables                                                     *)
(***************************************************************************)
STOP_WORDS ==
  {
    "a", "an", "the", "and", "or", "but", "in", "on", "at", "to", "for",
    "of", "with", "by", "from", "as", "is", "was", "are", "were", "been",
    "be", "have", "has", "had", "do", "does", "did", "will", "would",
    "could", "should", "may", "might", "shall", "can", "need", "must",
    "it", "its", "this", "that", "these", "those", "i", "you", "he", "she",
    "we", "they", "me", "him", "her", "us", "them", "my", "your", "his",
    "our", "their", "what", "which", "who", "whom", "where", "when", "why",
    "how", "all", "each", "every", "both", "few", "more", "most", "other",
    "some", "such", "no", "not", "only", "own", "same", "so", "than",
    "too", "very", "just", "about", "above", "after", "again", "also",
    "any", "because", "before", "between", "during", "into", "through",
    "under", "until", "up", "out", "over", "including", "using", "working",
    "work", "experience", "role", "team", "company", "position", "looking",
    "strong", "ability", "etc", "e.g", "i.e", "well", "new", "required",
    "preferred", "plus", "bonus", "ideal", "minimum", "least", "years",
    "year"
  }


\* dict order is kept: it is the order of the alternatives of the alias regex
SKILL_ALIASES ==
  <<
    <<"js", "JavaScript">>, <<"javascript", "JavaScript">>,
    <<"ts", "TypeScript">>, <<"typescript", "TypeScript">>,
    <<"py", "Python">>, <<"python", "Python">>, <<"node", "Node.js">>,
    <<"nodejs", "Node.js">>, <<"node.js", "Node.js">>,
    <<"react", "React">>, <<"reactjs", "React">>, <<"react.js", "React">>,
    <<"vue", "Vue.js">>, <<"vuejs", "Vue.js">>, <<"angular", "Angular">>,
    <<"angularjs", "Angular">>, <<"django", "Django">>,
    <<"flask", "Flask">>, <<"fastapi", "FastAPI">>, <<"spring", "Spring">>,
    <<"springboot", "Spring Boot">>, <<"spring boot", "Spring Boot">>,
    <<"aws", "AWS">>, <<"amazon web services", "AWS">>, <<"gcp", "GCP">>,
    <<"google cloud", "GCP">>, <<"azure", "Azure">>,
    <<"docker", "Docker">>, <<"kubernetes", "Kubernetes">>,
    <<"k8s", "Kubernetes">>, <<"postgres", "PostgreSQL">>,
    <<"postgresql", "PostgreSQL">>, <<"mysql", "MySQL">>,
    <<"mongodb", "MongoDB">>, <<"mongo", "MongoDB">>, <<"redis", "Redis">>,
    <<"kafka", "Kafka">>, <<"rabbitmq", "RabbitMQ">>,
    <<"graphql", "GraphQL">>, <<"rest", "REST">>, <<"restful", "REST">>,
    <<"ci/cd", "CI/CD">>, <<"cicd", "CI/CD">>, <<"git", "Git">>,
    <<"github", "GitHub">>, <<"gitlab", "GitLab">>,
    <<"terraform", "Terraform">>, <<"ansible", "Ansible">>,
    <<"linux", "Linux">>, <<"sql", "SQL">>, <<"nosql", "NoSQL">>,
    <<"html", "HTML">>, <<"css", "CSS">>, <<"sass", "SASS">>,
    <<"scss", "SASS">>, <<"webpack", "Webpack">>, <<"nginx", "Nginx">>,
    <<"apache", "Apache">>, <<"elasticsearch", "Elasticsearch">>,
    <<"ml", "Machine Learning">>,
    <<"machine learning", "Machine Learning">>,
    <<"deep learning", "Deep Learning">>, <<"nlp", "NLP">>,
    <<"natural language processing", "NLP">>, <<"ai", "AI">>,
    <<"artificial intelligence", "AI">>, <<"agile", "Agile">>,
    <<"scrum", "Scrum">>, <<"jira", "Jira">>, <<"jenkins", "Jenkins">>
  >>

AliasKeys == {SKILL_ALIASES[k][1] : k \in 1..Len(SKILL_ALIASES)}

AliasValues == {SKILL_ALIASES[k][2] : k \in 1..Len(SKILL_ALIASES)}

\* fault: one alias entry spelled unlike the entry of its own target
AliasGet_typo(key, default) ==
  IF key = "postgres" THEN "Postgresql"
  ELSE IF key \in AliasKeys
    THEN SKILL_ALIASES[CHOOSE k \in 1..Len(SKILL_ALIASES) :
                         SKILL_ALIASES[k][1] = key][2]
    ELSE default

\* SKILL_ALIASES.get(key, default)
AliasGet(key, default) ==
  IF key \in AliasKeys
    THEN SKILL_ALIASES[CHOOSE k \in 1..Len(SKILL_ALIASES) :
                         SKILL_ALIASES[k][1] = key][2]
    ELSE default

normalize_keyword(text) == AliasGet(lower(strip(text)), strip(text))

(***************************************************************************)
(* re.findall: the match length of each pattern at a 1-based offset i      *)
(* (0: no match there), then the left-to-right non-overlapping scan.       *)
(***************************************************************************)
\* \b in front of offset i
Boundary(t, i) == (CharAt(t, i - 1) \in WordChars) # (CharAt(t, i) \in WordChars)

\* number of consecutive characters of class C from offset i on
RECURSIVE RunLen(_, _, _)
RunLen(t, i, C) ==
  IF i <= Len(t) /\ SubSeq(t, i, i) \in C THEN 1 + RunLen(t, i + 1, C) ELSE 0

\* greedy matching with backtracking: the candidate <<k, g>> tried first is the
\* one with the largest k, then the largest g
Greedy(cands) ==
  CHOOSE c \in cands :
    \A d \in cands : d[1] < c[1] \/ (d[1] = c[1] /\ d[2] <= c[2])

\* \b(?:js|javascript|...)\b with IGNORECASE; tl is lower(t)
AliasLen(t, tl, i) ==
  IF ~(Boundary(t, i) /\ CharAt(t, i) \in WordChars) THEN 0
  ELSE LET fits(k) ==
             LET key == SKILL_ALIASES[k][1]
             IN  /\ i + Len(key) - 1 <= Len(tl)
                 /\ SubSeq(tl, i, i + Len(key) - 1) = key
                 /\ Boundary(t, i + Len(key))
           alts == {k \in 1..Len(SKILL_ALIASES) : fits(k)}
       IN  IF alts = {} THEN 0 ELSE Len(SKILL_ALIASES[SetMin(alts)][1])

\* \b[A-Z][a-z]+(?:\.[a-z]+)?\b with IGNORECASE: k letters, then a dot and g
\* letters (g = 0: the optional group is absent)
CapitalizedLen(t, i) ==
  IF ~(Boundary(t, i) /\ CharAt(t, i) \in Letters) THEN 0
  ELSE LET letters == RunLen(t, i, Letters)
           suffix(k) == IF CharAt(t, i + k) = "."
                          THEN RunLen(t, i + k + 1, Letters) ELSE 0
           size(k, g) == IF g = 0 THEN k ELSE k + 1 + g
           cands == UNION {{<<k, g>> : g \in {h \in 0..suffix(k) :
                                                 Boundary(t, i + size(k, h))}} :
                           k \in 2..letters}
       IN  IF cands = {} THEN 0
           ELSE size(Greedy(cands)[1], Greedy(cands)[2])

\* \b[A-Z]{2,6}\b with IGNORECASE
AcronymLen(t, i) ==
  IF ~(Boundary(t, i) /\ CharAt(t, i) \in Letters) THEN 0
  ELSE LET letters == RunLen(t, i, Letters)
           cands == {k \in 2..(IF letters < 6 THEN letters ELSE 6) :
                       Boundary(t, i + k)}
       IN  IF cands = {} THEN 0 ELSE SetMax(cands)

\* \b\w+\.\w+\b
DottedLen(t, i) ==
  IF ~(Boundary(t, i) /\ CharAt(t, i) \in WordChars) THEN 0
  ELSE LET head == RunLen(t, i, WordChars)
           tail(k) == IF CharAt(t, i + k) = "."
                        THEN RunLen(t, i + k + 1, WordChars) ELSE 0
           cands == UNION {{<<k, g>> : g \in {h \in 1..tail(k) :
                                                 Boundary(t, i + k + 1 + h)}} :
                           k \in 1..head}
       IN  IF cands = {} THEN 0
           ELSE Greedy(cands)[1] + 1 + Greedy(cands)[2]

\* \b[a-z][a-z-]+\b (applied to lowercased text)
WordLen(t, i) ==
  IF ~(Boundary(t, i) /\ CharAt(t, i) \in LowerChars) THEN 0
  ELSE LET more == RunLen(t, i + 1, LowerChars \cup {"-"})
           cands == {k \in 1..more : Boundary(t, i + 1 + k)}
       IN  IF cands = {} THEN 0 ELSE 1 + SetMax(cands)

MatchLen(pattern, t, tl, i) ==
  CASE pattern = "alias"       -> AliasLen(t, tl, i)
    [] pattern = "capitalized" -> CapitalizedLen(t, i)
    [] pattern = "acronym"     -> AcronymLen(t, i)
    [] pattern = "dotted"      -> DottedLen(t, i)
    [] pattern = "word"        -> WordLen(t, i)

\* the scan of re.findall over the offsets lo..hi, entered with the scanner at
\* offset pos: the matches that start in lo..hi (a match is taken where the
\* scanner stands, and the scanner then resumes behind it) and the offset the
\* scanner has reached
RECURSIVE Scan(_, _, _, _, _)
Scan(t, lens, pos, lo, hi) ==
  IF lo > hi THEN [found |-> <<>>, pos |-> pos]
  ELSE IF lo = hi
    THEN IF pos > lo THEN [found |-> <<>>, pos |-> pos]
         ELSE IF lens[lo] > 0
           THEN [found |-> <<SubSeq(t, lo, lo + lens[lo] - 1)>>,
                 pos   |-> lo + lens[lo]]
         ELSE [found |-> <<>>, pos |-> lo + 1]
  ELSE LET mid == (lo + hi) \div 2
           left == Scan(t, lens, pos, lo, mid)
           right == Scan(t, lens, left.pos, mid + 1, hi)
       IN  [found |-> left.found \o right.found, pos |-> right.pos]

\* re.findall(pattern, t)
findall(pattern, t) ==
  LET tl == lower(t)
      lens == List([i \in 1..Len(t) |-> MatchLen(pattern, t, tl, i)])
  IN  Scan(t, lens, 1, 1, Len(t)).found

(***************************************************************************)
(* keywords.py: extraction                                                 *)
(***************************************************************************)
\* the patterns of _extract_technical_terms, in the order they are applied
TECH_PATTERNS == <<"alias", "capitalized", "acronym", "dotted">>

\* terms.extend(matches) for each list of matches in turn
RECURSIVE Extended(_)
Extended(lists) ==
  IF lists = <<>> THEN <<>> ELSE Head(lists) \o Extended(Tail(lists))

_extract_technical_terms(text) ==
  Extended(List([p \in 1..Len(TECH_PATTERNS) |->
                   findall(TECH_PATTERNS[p], text)]))

\* Counter built by "for term in terms: freq[term] += 1": the distinct terms in
\* first-seen order, each with its number of occurrences
CounterOf(terms) ==
  LET Same(x) == x
      firsts == FirstSeen(terms, Same)
  IN  List([k \in 1..Len(firsts) |->
              [term  |-> terms[firsts[k]],
               count |-> Cardinality({j \in 1..Len(terms) :
                                        terms[j] = terms[firsts[k]]})]])

\* Counter.most_common(n)
most_common(freq, n) ==
  LET CountOf(e) == e.count
  IN  Take(SortedDesc(freq, CountOf), n)

category_of(canonical) ==
  IF lower(canonical) \in AliasKeys \/ canonical \in AliasValues THEN "skill"
  ELSE IF (\E i \in 1..Len(canonical) : CharAt(canonical, i) \in UpperChars)
          /\ Len(canonical) <= 15 THEN "tool"
  ELSE "general"

\* step 2 of extract_keywords: the single words that are no stop words
\* and longer than two characters
meaningful_words(text) ==
  LET Meaningful(w) == w \notin STOP_WORDS /\ Len(w) > 2
  IN  SelectSeq(findall("word", lower(text)), Meaningful)

\* fault: the terms counted as written, before normalization
canonical_terms_raw(all_terms) ==
  LET Counted(c) == lower(normalize_keyword(c)) \notin STOP_WORDS
                      /\ Len(normalize_keyword(c)) > 1
  IN  SelectSeq(all_terms, Counted)

\* step 4 of extract_keywords: the canonical form of each term, those that
\* are stop words or a single character left out
canonical_terms(all_terms) ==
  LET Counted(c) == lower(c) \notin STOP_WORDS /\ Len(c) > 1
  IN  SelectSeq(List([k \in 1..Len(all_terms) |->
                        normalize_keyword(all_terms[k])]),
                Counted)

\* steps 1, 2 and 4 of extract_keywords: freq, the Counter of canonical forms
term_frequencies(text) ==
  CounterOf(canonical_terms(_extract_technical_terms(text)
                              \o meaningful_words(text)))

\* fault: the raw text itself reported as a keyword
KeywordExtractionResult_raw(raw_text) ==
  [keywords |-> <<[text |-> raw_text, canonical |-> raw_text, frequency |-> 1,
                   category |-> "general"]>>,
   raw_text |-> raw_text]

\* KeywordExtractionResult(raw_text=...): keywords defaults to the empty list
KeywordExtractionResult(raw_text) == [keywords |-> <<>>, raw_text |-> raw_text]

\* step 6 of extract_keywords: a Keyword for each entry of
\* top = freq.most_common(max_keywords * 2) whose canonical form is new
Keywords(top) ==
  LET CanonOf(e) == normalize_keyword(e.term)
      kept == FirstSeen(top, CanonOf)
  IN  List([k \in 1..Len(kept) |->
              [text      |-> top[kept[k]].term,
               canonical |-> CanonOf(top[kept[k]]),
               frequency |-> top[kept[k]].count,
               category  |-> category_of(CanonOf(top[kept[k]]))]])

extract_keywords(text, max_keywords) ==
  IF text = "" \/ strip(text) = ""
    THEN KeywordExtractionResult(text)
    ELSE LET FrequencyOf(kw) == kw.frequency
         IN  [keywords |->
                Take(SortedDesc(
                       Keywords(
                         most_common(term_frequencies(text), max_keywords * 2)),
                       FrequencyOf),
                     max_keywords),
              raw_text |-> text]

\* fault: the frequency steps are skipped
importance_of_position(first_pos, midpoint, frequency) ==
  IF first_pos < midpoint THEN "high" ELSE "low"

\* the importance of a keyword first found at first_pos (-1: not found)
importance_of(first_pos, midpoint, frequency) ==
  IF first_pos < midpoint THEN "high"
  ELSE IF frequency >= 3 THEN "high"
  ELSE IF frequency >= 2 THEN "medium"
  ELSE "low"

\* the loop of extract_keywords_with_importance over result.keywords;
\* jd_lower is jd_text.lower(), midpoint is len(jd_text) // 2
weighted_keywords(keywords, jd_lower, midpoint) ==
  LET Weigh(kw) ==
        LET canonical_pos == find(jd_lower, lower(kw.canonical))
            first_pos == IF canonical_pos = -1
                           THEN find(jd_lower, lower(kw.text))
                           ELSE canonical_pos
        IN  [keyword    |-> kw.canonical,
             category   |-> kw.category,
             importance |-> importance_of(first_pos, midpoint, kw.frequency),
             frequency  |-> kw.frequency]
  IN  List([k \in 1..Len(keywords) |-> Weigh(keywords[k])])

extract_keywords_with_importance(jd_text, max_keywords) ==
  weighted_keywords(extract_keywords(jd_text, max_keywords).keywords,
                    lower(jd_text), Len(jd_text) \div 2)

(***************************************************************************)
(* Python round() on the float expressions of scorer.py                    *)
(***************************************************************************)
\* n / d rounded to the nearest integer, a tie going to the even neighbour
RoundHalfEven(n, d) ==
  LET q == n \div d
      r == n % d
  IN  IF 2 * r > d \/ (2 * r = d /\ q % 2 = 1) THEN q + 1 ELSE q

\* round((a / b) * 100) in binary floating point.  The quotient is rounded to
\* a double before it is multiplied; for every 0 <= a <= b < 200 the product
\* is on the same side of each tie as the exact value, except for
\* a / b = 23 / 40, where the product is 57.49999999999999 and rounds to 57.
round_percent(a, b) ==
  IF 40 * a = 23 * b THEN 57 ELSE RoundHalfEven(100 * a, b)

(***************************************************************************)
(* scorer.py                                                               *)
(***************************************************************************)
\* fault: weights that do not sum to 1.0
WEIGHTS_unbalanced ==
  [keyword_match |-> 30, section_completeness |-> 15, keyword_density |-> 15,
   experience_relevance |-> 15, formatting |-> 15]

\* WEIGHTS, in hundredths
WEIGHTS ==
  [keyword_match |-> 40, section_completeness |-> 15, keyword_density |-> 15,
   experience_relevance |-> 15, formatting |-> 15]

\* _score_formatting: a resume of fewer words is "too short"
MIN_WORDS == 150

\* _score_formatting: a resume of more words is "too long"
MAX_WORDS == 1200

EXPECTED_SECTIONS == <<"summary", "experience", "education", "skills">>

OPTIONAL_SECTIONS == <<"certifications", "projects">>

ToUpperChar(c) ==
  IF c \in LowerChars
    THEN LET k == CHOOSE j \in 1..Len(LOWER) : SubSeq(LOWER, j, j) = c
         IN  SubSeq(UPPER, k, k)
    ELSE c

\* str.upper()
RECURSIVE upper(_)
upper(s) ==
  IF Len(s) = 0 THEN ""
  ELSE IF Len(s) = 1 THEN ToUpperChar(s)
  ELSE LET h == Len(s) \div 2
       IN  upper(SubSeq(s, 1, h)) \o upper(SubSeq(s, h + 1, Len(s)))

\* s.replace(old, new) for a one-character old
RECURSIVE replace(_, _, _)
replace(s, old, new) ==
  IF Len(s) = 0 THEN ""
  ELSE IF Len(s) = 1 THEN (IF s = old THEN new ELSE s)
  ELSE LET h == Len(s) \div 2
       IN  replace(SubSeq(s, 1, h), old, new)
             \o replace(SubSeq(s, h + 1, Len(s)), old, new)

SeqToSet(seq) == {seq[k] : k \in 1..Len(seq)}

RECURSIVE SumOf(_, _)
SumOf(f, S) ==
  IF S = {} THEN 0
  ELSE LET x == CHOOSE y \in S : TRUE IN f[x] + SumOf(f, S \ {x})

\* fault: every importance weighs the same
ImportanceWeight_flat(importance) == 1

ImportanceWeight(importance) ==
  CASE importance = "high"   -> 3
    [] importance = "medium" -> 2
    [] importance = "low"    -> 1
    [] OTHER                 -> 1

\* fault: the membership test negated
is_matched_negated(keyword, matched) == keyword \notin SeqToSet(matched)

\* kw_info["keyword"] in matched
is_matched(keyword, matched) == keyword \in SeqToSet(matched)

\* _score_keyword_match after its first two statements: jd_keywords is the
\* list of weighted JD keywords, resume_lower the lowercased resume
keyword_match_of(jd_keywords, resume_lower) ==
  LET Found(kw_info) == contains(resume_lower, lower(kw_info.keyword))
      Absent(kw_info) == ~Found(kw_info)
      hits == SelectSeq(jd_keywords, Found)
      matched == List([k \in 1..Len(hits) |-> hits[k].keyword])
      missing == SelectSeq(jd_keywords, Absent)
      w == List([k \in 1..Len(jd_keywords) |->
                   ImportanceWeight(jd_keywords[k].importance)])
      total_weight == SumOf(w, 1..Len(jd_keywords))
      matched_weight ==
        SumOf(w, {k \in 1..Len(jd_keywords) :
                    is_matched(jd_keywords[k].keyword, matched)})
      score == IF total_weight > 0
                 THEN round_percent(matched_weight, total_weight) ELSE 0
  IN  IF jd_keywords = <<>>
        THEN [score |-> 100, matched |-> <<>>, missing |-> <<>>]
        ELSE [score   |-> IF score < 100 THEN score ELSE 100,
              matched |-> matched,
              missing |-> missing]

_score_keyword_match(resume_text, jd_text) ==
  keyword_match_of(extract_keywords_with_importance(jd_text, 25),
                   lower(resume_text))

SectionVariations(section) ==
  {section, replace(section, "_", " "), upper(section)}
    \cup (CASE section = "summary" ->
                 {"professional summary", "objective", "about"}
            [] section = "experience" ->
                 {"work experience", "professional experience", "employment"}
            [] section = "education" -> {"academic", "degree"}
            [] section = "skills" ->
                 {"technical skills", "core competencies", "technologies"}
            [] OTHER -> {})

OptionalVariations(section) ==
  {section, upper(section)}
    \cup (CASE section = "certifications" -> {"certificates", "certification"}
            [] section = "projects" -> {"personal projects", "side projects"}
            [] OTHER -> {})

_score_sections(resume_text) ==
  LET resume_lower == lower(resume_text)
      total == Len(EXPECTED_SECTIONS) + Len(OPTIONAL_SECTIONS)
      found ==
        Cardinality({k \in 1..Len(EXPECTED_SECTIONS) :
                       \E v \in SectionVariations(EXPECTED_SECTIONS[k]) :
                         contains(resume_lower, v)})
        + Cardinality({k \in 1..Len(OPTIONAL_SECTIONS) :
                         \E v \in OptionalVariations(OPTIONAL_SECTIONS[k]) :
                           contains(resume_lower, v)})
  IN  IF total > 0 THEN round_percent(found, total) ELSE 0

\* fault: the upper end of each band is excluded
density_score_open(total_occurrences, total_words) ==
  IF 100 * total_occurrences < total_words THEN 40
  ELSE IF 100 * total_occurrences < 3 * total_words THEN 80
  ELSE IF 100 * total_occurrences < 6 * total_words THEN 100
  ELSE IF 100 * total_occurrences < 10 * total_words THEN 80
  ELSE 50

\* density = total_occurrences / total_words is compared with 0.01, 0.03, 0.06
\* and 0.10; the division is correctly rounded, so each comparison agrees with
\* the comparison of the exact fractions
density_score(total_occurrences, total_words) ==
  IF 100 * total_occurrences < total_words THEN 40
  ELSE IF 100 * total_occurrences <= 3 * total_words THEN 80
  ELSE IF 100 * total_occurrences <= 6 * total_words THEN 100
  ELSE IF 100 * total_occurrences <= 10 * total_words THEN 80
  ELSE 50

_score_keyword_density(resume_text, matched_keywords) ==
  LET resume_lower == lower(resume_text)
      occ == List([k \in 1..Len(matched_keywords) |->
                     count(resume_lower, lower(matched_keywords[k]))])
  IN  IF matched_keywords = <<>> THEN 50
      ELSE IF word_count(resume_text) = 0 THEN 0
      ELSE density_score(SumOf(occ, 1..Len(matched_keywords)),
                         word_count(resume_text))

\* {kw.canonical.lower() for kw in keywords}
canonical_set(keywords) ==
  {lower(keywords[k].canonical) : k \in 1..Len(keywords)}

\* _score_experience_relevance once both keyword sets are built
overlap_score(resume_set, jd_set) ==
  LET overlap == resume_set \cap jd_set
      score == round_percent(Cardinality(overlap), Cardinality(jd_set))
  IN  IF jd_set = {} THEN 100
      ELSE IF score < 100 THEN score ELSE 100

_score_experience_relevance(resume_text, jd_text) ==
  overlap_score(canonical_set(extract_keywords(resume_text, 20).keywords),
                canonical_set(extract_keywords(jd_text, 20).keywords))

\* re.search(r'[\w.+-]+@[\w-]+\.[\w.-]+', t)
has_email(t) ==
  \E i \in 1..Len(t) :
    /\ CharAt(t, i) = "@"
    /\ CharAt(t, i - 1) \in WordChars \cup {".", "+", "-"}
    /\ LET domain == RunLen(t, i + 1, WordChars \cup {"-"})
       IN  /\ domain >= 1
           /\ CharAt(t, i + 1 + domain) = "."
           /\ CharAt(t, i + 2 + domain) \in WordChars \cup {".", "-"}

\* re.search(r'[\+]?[\d\s\-\(\)]{7,15}', t)
has_phone(t) ==
  \E i \in 1..Len(t) :
    \A j \in i..(i + 6) :
      CharAt(t, j) \in DigitChars \cup Whitespace \cup {"-", "(", ")"}

\* re.search(r'[*-] ', t); the pattern also accepts U+2022 before the blank
has_bullets(t) ==
  \E i \in 1..Len(t) : CharAt(t, i) \in {"-", "*"} /\ CharAt(t, i + 1) = " "

\* re.search(r'\b20\d{2}\b', t)
has_dates(t) ==
  \E i \in 1..Len(t) :
    /\ Boundary(t, i)
    /\ CharAt(t, i) = "2"
    /\ CharAt(t, i + 1) = "0"
    /\ CharAt(t, i + 2) \in DigitChars
    /\ CharAt(t, i + 3) \in DigitChars
    /\ Boundary(t, i + 4)

\* fault: the length penalty is added to the score instead of taken off it
length_penalty_added(words) ==
  IF words < MIN_WORDS THEN -20
  ELSE IF words > MAX_WORDS THEN -10
  ELSE 0

\* fault: "too short" decided at the 300 words the issue text recommends
length_penalty_300(words) ==
  IF words < 300 THEN 20
  ELSE IF words > MAX_WORDS THEN 10
  ELSE 0

\* the length check of _score_formatting: the penalty for a resume of that
\* many words
length_penalty(words) ==
  IF words < MIN_WORDS THEN 20
  ELSE IF words > MAX_WORDS THEN 10
  ELSE 0

\* fault: a missing phone number costs as much as a missing email address
contact_penalty_even(email, phone) ==
  (IF email THEN 0 ELSE 10) + (IF phone THEN 0 ELSE 10)

\* the penalties of the contact checks of _score_formatting
contact_penalty(email, phone) ==
  (IF email THEN 0 ELSE 10) + (IF phone THEN 0 ELSE 5)

\* _score_formatting once the resume is measured: its number of words and
\* whether an email address, a phone number, a bullet and a year were found
formatting_of(words, email, phone, bullets, dates) ==
  LET length_issue ==
        IF words < MIN_WORDS
          THEN <<"Resume too short (" \o ToString(words)
                   \o " words). Aim for 300+ words.">>
        ELSE IF words > MAX_WORDS
          THEN <<"Resume too long (" \o ToString(words)
                   \o " words). Keep under 800 words for 1-2 pages.">>
        ELSE <<>>
      email_issue == IF email THEN <<>>
                     ELSE <<"No email address found in resume.">>
      phone_issue == IF phone THEN <<>>
                     ELSE <<"No phone number found in resume.">>
      bullet_issue ==
        IF bullets THEN <<>>
        ELSE <<"No bullet points found. Use bullet points for experience items.">>
      date_issue ==
        IF dates THEN <<>>
        ELSE <<"No dates found. Include dates for experience and education.">>
      score == 100 - length_penalty(words)
                 - contact_penalty(email, phone)
                 - (IF bullets THEN 0 ELSE 10)
                 - (IF dates THEN 0 ELSE 10)
  IN  [score  |-> IF score > 0 THEN score ELSE 0,
       issues |-> length_issue \o email_issue \o phone_issue
                    \o bullet_issue \o date_issue]

_score_formatting(resume_text) ==
  formatting_of(word_count(resume_text), has_email(resume_text),
                has_phone(resume_text), has_bullets(resume_text),
                has_dates(resume_text))

\* round(keyword_match * 0.40 + ... + formatting * 0.15): the values round()
\* can return.  Off a tie the float sum is within 1e-13 of the exact sum and
\* rounds as the exact sum does; on a tie (exact sum x.5) the float sum falls
\* on either side of it (0.15 and 0.40 are not doubles), so either neighbour
\* may be returned.
overall_scores(breakdown) ==
  LET total == breakdown.keyword_match * WEIGHTS.keyword_match
               + breakdown.section_completeness * WEIGHTS.section_completeness
               + breakdown.keyword_density * WEIGHTS.keyword_density
               + breakdown.experience_relevance * WEIGHTS.experience_relevance
               + breakdown.formatting * WEIGHTS.formatting
  IN  IF total % 100 = 50
        THEN {total \div 100, total \div 100 + 1}
        ELSE {RoundHalfEven(total, 100)}

\* the ScoreResult of ATSScorer.score before overall_score is assigned (it is
\* 0, the dataclass default): km and fmt are what _score_keyword_match and
\* _score_formatting returned
ScoreParts(km, fmt, resume_text, jd_text) ==
  [overall_score |-> 0,
   breakdown |->
     [keyword_match        |-> km.score,
      section_completeness |-> _score_sections(resume_text),
      keyword_density      |-> _score_keyword_density(resume_text, km.matched),
      experience_relevance |->
        _score_experience_relevance(resume_text, jd_text),
      formatting           |-> fmt.score],
   matched_keywords  |-> km.matched,
   missing_keywords  |-> km.missing,
   formatting_issues |-> fmt.issues]

\* ATSScorer.score without its last step
score_breakdown(resume_text, jd_text) ==
  ScoreParts(_score_keyword_match(resume_text, jd_text),
             _score_formatting(resume_text), resume_text, jd_text)

\* the last step of ATSScorer.score: overall_score assigned
with_overall(partial) ==
  {[partial EXCEPT !.overall_score = o] :
     o \in overall_scores(partial.breakdown)}

\* ATSScorer.score: the ScoreResults the call can return
score(resume_text, jd_text) ==
  with_overall(score_breakdown(resume_text, jd_text))

(***************************************************************************)
(* analyzer/suggestions.py.  The three closing texts start with an emoji   *)
(* and a blank in the source; they are written here without them.          *)
(***************************************************************************)
\* sep.join(names)
RECURSIVE join(_, _)
join(sep, names) ==
  IF names = <<>> THEN ""
  ELSE IF Len(names) = 1 THEN names[1]
  ELSE names[1] \o sep \o join(sep, Tail(names))

\* [kw["keyword"] for kw in keywords[:5]]
first_five_names(keywords) ==
  List([k \in 1..Len(Take(keywords, 5)) |-> keywords[k].keyword])

\* [kw for kw in missing_keywords if kw.get("importance") == importance]
of_importance(missing_keywords, importance) ==
  LET Is(kw) == Get(kw, "importance", None) = importance
  IN  SelectSeq(missing_keywords, Is)

\* the keyword suggestions for keyword_match < 60
priority_suggestions(high_priority, medium_priority) ==
  (IF high_priority # <<>>
   THEN <<"CRITICAL: Add these missing high-priority keywords: "
            \o join(", ", first_five_names(high_priority))>>
   ELSE <<>>)
  \o (IF medium_priority # <<>>
      THEN <<"Add these missing keywords if applicable: "
               \o join(", ", first_five_names(medium_priority))>>
      ELSE <<>>)

keyword_suggestions(keyword_match, missing_keywords) ==
  IF keyword_match < 60
  THEN priority_suggestions(of_importance(missing_keywords, "high"),
                            of_importance(missing_keywords, "medium"))
  ELSE IF keyword_match < 80 /\ missing_keywords # <<>>
  THEN <<"Consider adding: "
           \o join(", ", first_five_names(missing_keywords))
           \o " to improve keyword match.">>
  ELSE <<>>

section_suggestions(section_completeness) ==
  IF section_completeness < 70
  THEN <<"Your resume is missing key sections. Ensure you have: Professional Summary, Experience, Education, and Skills sections.">>
  ELSE IF section_completeness < 100
  THEN <<"Consider adding Certifications or Projects sections if applicable.">>
  ELSE <<>>

\* fault: the middle branch looks at keyword_match alone
density_suggestions_by_match(keyword_density, keyword_match) ==
  IF keyword_density < 50
  THEN <<"Keywords appear too infrequently. Naturally weave them into your experience bullet points and summary.">>
  ELSE IF keyword_match > 80
  THEN <<>>
  ELSE IF keyword_density < 70
  THEN <<"Increase keyword usage by incorporating relevant terms into your experience descriptions and achievements.">>
  ELSE <<>>

\* the density block of generate_suggestions
density_suggestions(keyword_density, keyword_match) ==
  IF keyword_density < 50
  THEN <<"Keywords appear too infrequently. Naturally weave them into your experience bullet points and summary.">>
  ELSE IF keyword_density > 90 /\ keyword_match > 80
  THEN <<>>
  ELSE IF keyword_density < 70
  THEN <<"Increase keyword usage by incorporating relevant terms into your experience descriptions and achievements.">>
  ELSE <<>>

experience_suggestions(experience_relevance) ==
  IF experience_relevance < 50
  THEN <<"Your experience bullets don't align well with the job description. Rephrase bullets to highlight relevant achievements and technologies.">>
  ELSE IF experience_relevance < 70
  THEN <<"Improve experience relevance by adding metrics and using action verbs that match the JD responsibilities.">>
  ELSE <<>>

formatting_suggestions(formatting_issues) ==
  List([k \in 1..Len(formatting_issues) |->
          "Formatting: " \o formatting_issues[k]])

GOOD_SCORE == "Good ATS score! Minor tweaks can push it even higher."

MODERATE_SCORE ==
  "Moderate ATS score. Focus on adding missing keywords and rephrasing experience bullets."

LOW_SCORE ==
  "Low ATS score. This resume needs significant keyword additions and structural improvements before submitting."

\* fault: the closing text is left out for a low score
overall_suggestion_silent(overall_score) ==
  IF overall_score >= 80 THEN <<GOOD_SCORE>>
  ELSE IF overall_score >= 60 THEN <<MODERATE_SCORE>>
  ELSE <<>>

overall_suggestion(overall_score) ==
  IF overall_score >= 80 THEN <<GOOD_SCORE>>
  ELSE IF overall_score >= 60 THEN <<MODERATE_SCORE>>
  ELSE <<LOW_SCORE>>

generate_suggestions(score_result) ==
  keyword_suggestions(score_result.breakdown.keyword_match,
                      score_result.missing_keywords)
    \o section_suggestions(score_result.breakdown.section_completeness)
    \o density_suggestions(score_result.breakdown.keyword_density,
                           score_result.breakdown.keyword_match)
    \o experience_suggestions(score_result.breakdown.experience_relevance)
    \o formatting_suggestions(score_result.formatting_issues)
    \o overall_suggestion(score_result.overall_score)

(***************************************************************************)
(* profile/manager.py: a profile is the dict loaded from the profile file, *)
(* a record here; a key the dict may lack is a field the record may lack.  *)
(***************************************************************************)
\* CandidateProfile.get_all_skill_names
get_all_skill_names(data) ==
  LET skills == Get(data, "skills", <<>>)
      items(c) == Get(skills[c], "items", <<>>)
  IN  Extended(List([c \in 1..Len(skills) |->
                       List([i \in 1..Len(items(c)) |-> items(c)[i].name])]))

\* CandidateProfile.get_all_bullets
get_all_bullets(data) ==
  LET experience == Get(data, "experience", <<>>)
      bullets(e) == Get(experience[e], "bullets", <<>>)
      entry(e, b) ==
        [text |-> Get(bullets(e)[b], "text", ""),
         tags |-> Get(bullets(e)[b], "tags", <<>>),
         company |-> Get(experience[e], "company", ""),
         title |-> Get(experience[e], "title", "")]
  IN  Extended(List([e \in 1..Len(experience) |->
                       List([b \in 1..Len(bullets(e)) |-> entry(e, b)])]))

(***************************************************************************)
(* discovery/scorer.py: JobProfileScorer.  Its scores are floats with one  *)
(* decimal; they are kept in tenths (50.0 is 500).                         *)
(***************************************************************************)
\* the names a "for x in list: candidate_keywords.add(normalize_keyword(x)
\* .lower())" loop adds
normalized_names(names) ==
  {lower(normalize_keyword(names[i])) : i \in 1..Len(names)}

\* the tags of all bullets, one after the other
bullet_tags(bullets) ==
  Extended(List([b \in 1..Len(bullets) |-> Get(bullets[b], "tags", <<>>)]))

\* the tech_stack entries of all projects, one after the other
project_tech(projects) ==
  Extended(List([p \in 1..Len(projects) |->
                   Get(projects[p], "tech_stack", <<>>)]))

\* candidate_keywords: skills, bullet tags and project tech stacks
candidate_keywords(data) ==
  normalized_names(get_all_skill_names(data))
    \cup normalized_names(bullet_tags(get_all_bullets(data)))
    \cup normalized_names(project_tech(Get(data, "projects", <<>>)))

\* min(round(score, 1), 100.0) for score = (overlap / total) * 100, in tenths.
\* The float product rounds as the exact quotient does for every total <= 50.
rounded_share_down(overlap, total) ==
  LET exact == (1000 * overlap) \div total
  IN  IF exact < 1000 THEN exact ELSE 1000

rounded_share(overlap, total) ==
  LET rounded == RoundHalfEven(1000 * overlap, total)
  IN  IF rounded < 1000 THEN rounded ELSE 1000

\* "if not job.description_text"
no_description_never(job) == FALSE

no_description(job) == job.description_text = ""

\* score() once jd_set and the candidate keywords are built
profile_match(jd_set, candidate) ==
  IF jd_set = {} THEN 500
  ELSE rounded_share(Cardinality(jd_set \cap candidate), Cardinality(jd_set))

\* JobProfileScorer.score
JobProfileScorer_score(job, data) ==
  IF no_description(job) THEN 0
  ELSE profile_match(
         canonical_set(extract_keywords(job.description_text, 25).keywords),
         candidate_keywords(data))

\* "if s >= min_score"
meets_min_strict(s, min_score) == s > min_score

meets_min(s, min_score) == s >= min_score

\* the second component of a (job, score) pair
PairScore(pair) == pair[2]

\* JobProfileScorer.score_and_rank
score_and_rank(jobs, data, min_score) ==
  LET all == List([j \in 1..Len(jobs) |->
                     <<jobs[j], JobProfileScorer_score(jobs[j], data)>>])
      Kept(pair) == meets_min(pair[2], min_score)
  IN  SortedDesc(SelectSeq(all, Kept), PairScore)

(***************************************************************************)
(* generator/content_selector.py.  The containers of a profile are shared  *)
(* objects: a Shared value names one of them (the personal_info dict, the  *)
(* education or certifications list, a project dict, a bullet dict) where  *)
(* the code passes the object itself on, an Own value holds a container    *)
(* the call has built.                                                     *)
(***************************************************************************)
Shared(kind, i, j) == [kind |-> kind, i |-> i, j |-> j]

\* the object a Shared value names, in the data of the profile
Deref(data, ref) ==
  CASE ref.kind = "personal_info"  -> data.personal_info
    [] ref.kind = "education"      -> data.education
    [] ref.kind = "certifications" -> data.certifications
    [] ref.kind = "project"        -> data.projects[ref.i]
    [] ref.kind = "bullet"         -> data.experience[ref.i].bullets[ref.j]

\* the data of the profile once the object a Shared value names is replaced
Assigned(data, ref, object) ==
  CASE ref.kind = "personal_info"  -> [data EXCEPT !.personal_info = object]
    [] ref.kind = "education"      -> [data EXCEPT !.education = object]
    [] ref.kind = "certifications" -> [data EXCEPT !.certifications = object]
    [] ref.kind = "project"        -> [data EXCEPT !.projects[ref.i] = object]
    [] ref.kind = "bullet"         ->
         [data EXCEPT !.experience[ref.i].bullets[ref.j] = object]

\* self.data.get(key, default) of a property that returns a container: the
\* object of the profile when the key is there, a new empty one otherwise
Property(data, key, default) ==
  IF key \in DOMAIN data THEN [shared |-> TRUE, ref |-> Shared(key, 0, 0)]
  ELSE [shared |-> FALSE, own |-> default]

\* the container a property value stands for
Held(data, property) ==
  IF property.shared THEN Deref(data, property.ref) ELSE property.own

\* the objects a list of Shared values names
DerefAll(data, refs) == List([k \in 1..Len(refs) |-> Deref(data, refs[k])])

\* a SelectedContent as its reader sees it: every shared object by its
\* present content
Seen(data, content) ==
  [summary |-> content.summary,
   skills |-> content.skills,
   experience |->
     List([e \in 1..Len(content.experience) |->
             [content.experience[e] EXCEPT
                !.bullets = DerefAll(data, content.experience[e].bullets)]]),
   education |-> Held(data, content.education),
   certifications |-> Held(data, content.certifications),
   projects |-> DerefAll(data, content.projects),
   personal_info |-> Held(data, content.personal_info),
   target_keywords |-> content.target_keywords]

\* the characters of code points 32..95 and 97..126
ASCII_32 ==
  " !\"#$%&'()*+,-./0123456789:;<=>?@ABCDEFGHIJKLMNOPQRSTUVWXYZ[\\]^_"

ASCII_97 == "abcdefghijklmnopqrstuvwxyz{|}~"

\* ord(c)
ord(c) ==
  IF c \in CharsOf(ASCII_97)
  THEN 96 + CHOOSE k \in 1..Len(ASCII_97) : CharAt(ASCII_97, k) = c
  ELSE 31 + CHOOSE k \in 1..Len(ASCII_32) : CharAt(ASCII_32, k) = c

\* a < b on str
str_less(a, b) ==
  \E k \in 1..(Len(a) + 1) :
    /\ k <= Len(b)
    /\ SubSeq(a, 1, k - 1) = SubSeq(b, 1, k - 1)
    /\ (k = Len(a) + 1 \/ ord(CharAt(a, k)) < ord(CharAt(b, k)))

\* s.split()
split(s) ==
  LET starts == {i \in 1..Len(s) :
                   /\ CharAt(s, i) \notin Whitespace
                   /\ (i = 1 \/ CharAt(s, i - 1) \in Whitespace)}
      EndOf(i) == SetMin({j \in i..Len(s) :
                    j = Len(s) \/ CharAt(s, j + 1) \in Whitespace})
      Nth(k) == CHOOSE i \in starts : Cardinality({j \in starts : j < i}) = k - 1
  IN  List([k \in 1..Cardinality(starts) |-> SubSeq(s, Nth(k), EndOf(Nth(k)))])

\* sum(1 for w in words if w in text)
contained_count(words, text) ==
  Cardinality({k \in 1..Len(words) : contains(text, words[k])})

\* _select_summary once the score of each summary is known: the first summary
\* of the highest score, the first summary when that text is empty
best_summary(summaries, scores) ==
  LET best == CHOOSE k \in 1..Len(summaries) :
                /\ \A j \in 1..Len(summaries) : scores[j] <= scores[k]
                /\ \A j \in 1..(k - 1) : scores[j] < scores[k]
      text_of(k) == Get(summaries[k], "text", "")
  IN  IF summaries = <<>> THEN ""
      ELSE IF text_of(best) = "" THEN text_of(1) ELSE text_of(best)

\* ContentSelector._select_summary
_select_summary(data, jd_text_) ==
  LET summaries == Get(data, "summaries", <<>>)
  IN  strip(best_summary(
        summaries,
        List([k \in 1..Len(summaries) |->
                contained_count(
                  split(lower(Get(summaries[k], "target_role", ""))),
                  lower(jd_text_))])))

\* a dict of proficiency weights that weighs every proficiency alike
prof_weight_flat(proficiency) == 1

\* {"Expert": 3, "Advanced": 2, "Intermediate": 1}.get(proficiency, 1)
prof_weight(proficiency) ==
  CASE proficiency = "Expert" -> 3
    [] proficiency = "Advanced" -> 2
    [] OTHER -> 1

\* the (name, score) pair of a skill item
skill_entry(item, jd_keywords) ==
  <<item.name,
    (IF lower(normalize_keyword(item.name)) \in jd_keywords THEN 10 ELSE 0)
      + prof_weight(Get(item, "proficiency", ""))>>

\* all_skills.sort(key=lambda x: (-x[1], x[0]))
sorted_skills(all_skills) ==
  LET n == Len(all_skills)
      Before(j, i) ==
        \/ all_skills[j][2] > all_skills[i][2]
        \/ /\ all_skills[j][2] = all_skills[i][2]
           /\ \/ str_less(all_skills[j][1], all_skills[i][1])
              \/ (all_skills[j][1] = all_skills[i][1] /\ j < i)
      rank == List([i \in 1..n |->
                      1 + Cardinality({j \in 1..n : Before(j, i)})])
  IN  List([r \in 1..n |-> all_skills[CHOOSE i \in 1..n : rank[i] = r]])

\* the items of all skill categories, one after the other
skill_items(data) ==
  LET skills == Get(data, "skills", <<>>)
  IN  Extended(List([c \in 1..Len(skills) |-> Get(skills[c], "items", <<>>)]))

\* [s[0] for s in all_skills[:max_skills]]
names_of(all_skills, max_skills) ==
  List([k \in 1..Len(Take(all_skills, max_skills)) |-> all_skills[k][1]])

\* ContentSelector._select_skills
_select_skills(data, jd_keywords, max_skills) ==
  LET items == skill_items(data)
  IN  names_of(
        sorted_skills(List([k \in 1..Len(items) |->
                              skill_entry(items[k], jd_keywords)])),
        max_skills)

\* {t.lower() for t in tags}
lowered(tags) == {lower(tags[k]) : k \in 1..Len(tags)}

\* a bullet score that counts a tag match as much as a text match
bullet_score_single(bullet, jd_keywords) ==
  Cardinality(lowered(Get(bullet, "tags", <<>>)) \cap jd_keywords)
    + Cardinality({kw \in jd_keywords :
                     contains(lower(Get(bullet, "text", "")), kw)})

\* the score of a bullet
bullet_score(bullet, jd_keywords) ==
  2 * Cardinality(lowered(Get(bullet, "tags", <<>>)) \cap jd_keywords)
    + Cardinality({kw \in jd_keywords :
                     contains(lower(Get(bullet, "text", "")), kw)})

\* top_bullets: the bullet dicts of the profile, by score
top_bullets(data, e, jd_keywords, max_bullets_per_role) ==
  LET bullets == Get(data.experience[e], "bullets", <<>>)
      scored_bullets ==
        List([b \in 1..Len(bullets) |->
                <<Shared("bullet", e, b), bullet_score(bullets[b], jd_keywords)>>])
      ranked_bullets == SortedDesc(scored_bullets, PairScore)
  IN  List([k \in 1..Len(Take(ranked_bullets, max_bullets_per_role)) |->
              ranked_bullets[k][1]])

\* ContentSelector._select_experience
_select_experience(data, jd_keywords, max_bullets_per_role) ==
  LET experience == Get(data, "experience", <<>>)
  IN  List([e \in 1..Len(experience) |->
              [company |-> experience[e].company,
               title |-> experience[e].title,
               location |-> Get(experience[e], "location", ""),
               start_date |-> Get(experience[e], "start_date", ""),
               end_date |-> Get(experience[e], "end_date", None),
               bullets |-> top_bullets(data, e, jd_keywords,
                                       max_bullets_per_role)]])

\* the score of a project
project_score(proj, jd_keywords) ==
  Cardinality(lowered(Get(proj, "tech_stack", <<>>)) \cap jd_keywords)
    + Cardinality({kw \in jd_keywords :
                     contains(lower(Get(proj, "description", "")), kw)})

\* ContentSelector._select_projects: the project dicts of the profile
_select_projects(data, jd_keywords, max_projects) ==
  LET projects == Get(data, "projects", <<>>)
      scored_projects ==
        List([p \in 1..Len(projects) |->
                <<Shared("project", p, 0), project_score(projects[p], jd_keywords)>>])
      ranked_projects == SortedDesc(scored_projects, PairScore)
  IN  List([k \in 1..Len(Take(ranked_projects, max_projects)) |->
              ranked_projects[k][1]])

\* [k.canonical for k in jd_kw_result.keywords]
canonical_list(keywords) ==
  List([k \in 1..Len(keywords) |-> keywords[k].canonical])

\* select once the keywords of the JD are extracted
SelectedContent(data, jd_text_, keywords, max_skills, max_bullets, max_projects) ==
  [summary |-> _select_summary(data, jd_text_),
   skills |-> _select_skills(data, canonical_set(keywords), max_skills),
   experience |-> _select_experience(data, canonical_set(keywords),
                                     max_bullets),
   education |-> Property(data, "education", <<>>),
   certifications |-> Property(data, "certifications", <<>>),
   projects |-> _select_projects(data, canonical_set(keywords), max_projects),
   personal_info |-> Property(data, "personal_info", <<>>),
   target_keywords |-> canonical_list(keywords)]

\* ContentSelector.select
select(data, jd_text_, max_skills, max_bullets_per_role, max_projects) ==
  SelectedContent(data, jd_text_, extract_keywords(jd_text_, 25).keywords,
                  max_skills, max_bullets_per_role, max_projects)

\* exp["bullets"] once _select_experience has sorted: the bullets by score
bullets_left_sorted(data, e, jd_keywords) ==
  DerefAll(data, top_bullets(data, e, jd_keywords,
                             Len(data.experience[e].bullets)))

\* exp["bullets"] once _select_experience has sorted: scored_bullets is a
\* list of its own, the list of the profile keeps its order
bullets_left(data, e, jd_keywords) == data.experience[e].bullets

\* the data of the profile when select returns
left_by_select(data, jd_keywords) ==
  IF "experience" \notin DOMAIN data THEN data
  ELSE [data EXCEPT !.experience =
          List([e \in 1..Len(data.experience) |->
                  IF "bullets" \notin DOMAIN data.experience[e]
                  THEN data.experience[e]
                  ELSE [data.experience[e] EXCEPT
                          !.bullets = bullets_left(data, e, jd_keywords)]])]

\* d[key] = value
SetItem(d, key, value) ==
  [k \in DOMAIN d \cup {key} |-> IF k = key THEN value ELSE d[k]]

\* the Shared value of a property value, if it is one
shared_of(property) == IF property.shared THEN {property.ref} ELSE {}

\* the Shared values a SelectedContent holds
shared_in(content) ==
  shared_of(content.personal_info)
    \cup shared_of(content.education)
    \cup shared_of(content.certifications)
    \cup SeqToSet(content.projects)
    \cup UNION {SeqToSet(content.experience[e].bullets) :
                  e \in 1..Len(content.experience)}

\* a modification of an object reached through a SelectedContent: an item
\* set in a dict, an item appended to a list
modified(kind, object) ==
  CASE kind = "personal_info"  -> SetItem(object, "email", "edited")
    [] kind = "education"      -> Append(object, [institution |-> "edited"])
    [] kind = "certifications" -> Append(object, [name |-> "edited"])
    [] kind = "project"        -> SetItem(object, "name", "edited")
    [] kind = "bullet"         -> SetItem(object, "text", "edited")

(***************************************************************************)
(* discovery/deduplicator.py                                               *)
(***************************************************************************)
\* Deduplicator.__init__: fuzzy_threshold
DEFAULT_FUZZY_THRESHOLD == 85

\* the characters of a URL scheme
SchemeChars == Letters \cup DigitChars \cup {"+", "-", "."}

\* the 1-based position of the first character of s at or after position
\* from that is in chars, Len(s) + 1 if there is none
FirstOf(s, chars, from) ==
  LET hits == {i \in from..Len(s) : CharAt(s, i) \in chars}
  IN  IF hits = {} THEN Len(s) + 1 ELSE SetMin(hits)

\* path.rstrip("/")
rstrip_slash(path) ==
  LET solid == {i \in 1..Len(path) : CharAt(path, i) # "/"}
  IN  IF solid = {} THEN "" ELSE SubSeq(path, 1, SetMax(solid))

\* urlparse(url): scheme up to the first ":", netloc after "//" up to the
\* first of "/", "?" and "#", path up to the first of "?" and "#" and, in
\* its last segment, up to the first ";"
urlparse(url) ==
  LET colon == FirstOf(url, {":"}, 1)
      has_scheme ==
        /\ 1 < colon /\ colon <= Len(url)
        /\ CharAt(url, 1) \in Letters
        /\ \A i \in 1..(colon - 1) : CharAt(url, i) \in SchemeChars
      after == IF has_scheme THEN SubSeq(url, colon + 1, Len(url)) ELSE url
      has_netloc == SubSeq(after, 1, 2) = "//"
      delim == FirstOf(after, {"/", "?", "#"}, 3)
      rest == IF has_netloc THEN SubSeq(after, delim, Len(after)) ELSE after
      whole == SubSeq(rest, 1, FirstOf(rest, {"?", "#"}, 1) - 1)
      slashes == {i \in 1..Len(whole) : CharAt(whole, i) = "/"}
      segment == IF slashes = {} THEN 1 ELSE SetMax(slashes)
  IN  [scheme |-> IF has_scheme THEN lower(SubSeq(url, 1, colon - 1)) ELSE "",
       netloc |-> IF has_netloc THEN SubSeq(after, 3, delim - 1) ELSE "",
       path |-> SubSeq(whole, 1, FirstOf(whole, {";"}, segment) - 1)]

\* Deduplicator._normalize_url
_normalize_url(url) ==
  lower(urlparse(url).scheme \o "://" \o urlparse(url).netloc
          \o rstrip_slash(urlparse(url).path))

\* one row of the table of longest common subsequences: the entries for the
\* prefixes of b, given the row prev of the prefix of a one character
\* shorter; c, the character added to a, is left out or paired with an equal
\* character of b
lcs_row(prev, c, b) ==
  List([j \in 1..Len(b) |->
          SetMax({prev[j]} \cup
                 {(IF k = 1 THEN 0 ELSE prev[k - 1]) + 1 :
                    k \in {k \in 1..j : CharAt(b, k) = c}})])

\* the last row of the table, from row i - 1 on; each row is computed before
\* the next is asked for
RECURSIVE lcs_rows(_, _, _, _)
lcs_rows(a, b, i, prev) ==
  IF i > Len(a) THEN prev
  ELSE LET row == lcs_row(prev, CharAt(a, i), b)
       IN  IF Len(row) = Len(b) THEN lcs_rows(a, b, i + 1, row) ELSE <<>>

\* the length of the longest common subsequence of a and b
lcs_length(a, b) ==
  IF Len(b) = 0 THEN 0
  ELSE lcs_rows(a, b, 1, List([j \in 1..Len(b) |-> 0]))[Len(b)]

\* fault: the ratio must exceed the threshold
ratio_reaches_strict(a, b, threshold) ==
  200 * lcs_length(a, b) > threshold * (Len(a) + Len(b))

\* fuzz.ratio(a, b) >= threshold: the ratio is 100 times the normalized Indel
\* similarity, 2 * lcs / (len(a) + len(b)), and 100 for two empty strings
ratio_reaches(a, b, threshold) ==
  IF Len(a) + Len(b) = 0 THEN 100 >= threshold
  ELSE 200 * lcs_length(a, b) >= threshold * (Len(a) + Len(b))

\* f"{job.title.lower()}|{job.company.lower()}"
title_company_key(job) == lower(job.title) \o "|" \o lower(job.company)

\* the body of the loop of deduplicate for one job
deduplicate_job(job, normalized_existing, fuzzy_threshold, so_far) ==
  IF \/ _normalize_url(job.url) \in normalized_existing
     \/ _normalize_url(job.url) \in so_far.seen_normalized
  THEN [so_far EXCEPT !.duplicates = Append(@, job)]
  ELSE IF \E seen_key \in so_far.seen_keys :
            ratio_reaches(title_company_key(job), seen_key, fuzzy_threshold)
  THEN [so_far EXCEPT !.duplicates = Append(@, job)]
  ELSE [unique |-> Append(so_far.unique, job),
        duplicates |-> so_far.duplicates,
        seen_normalized |->
          so_far.seen_normalized \cup {_normalize_url(job.url)},
        seen_keys |-> so_far.seen_keys \cup {title_company_key(job)}]

RECURSIVE deduplicate_from(_, _, _, _, _)
deduplicate_from(new_jobs, i, normalized_existing, fuzzy_threshold, so_far) ==
  IF i > Len(new_jobs) THEN so_far
  ELSE deduplicate_from(new_jobs, i + 1, normalized_existing, fuzzy_threshold,
                        deduplicate_job(new_jobs[i], normalized_existing,
                                        fuzzy_threshold, so_far))

\* Deduplicator.deduplicate
deduplicate(new_jobs, existing, fuzzy_threshold) ==
  deduplicate_from(new_jobs, 1, {_normalize_url(u) : u \in existing},
                   fuzzy_threshold,
                   [unique |-> <<>>, duplicates |-> <<>>,
                    seen_normalized |-> {}, seen_keys |-> {}])

(***************************************************************************)
(* automation/orchestrator.py.  A driver is what it will do when called:   *)
(* name is driver_name(), is_available "True", "False" or "raises",        *)
(* searching "returns" (the list found) or "raises", applying the status   *)
(* of the dict apply returns, or "raises".                                 *)
(***************************************************************************)
PortalDriver(name, is_available, searching, found, applying) ==
  [name |-> name, is_available |-> is_available, searching |-> searching,
   found |-> found, applying |-> applying]

\* str(e) of the exceptions raised
EXCEPTION_TEXT == "failed"

\* the driver answers the search of run with a list of jobs
answers(driver) ==
  driver.is_available = "True" /\ driver.searching = "returns"

\* the try block of the discovery loop ends in the except clause
search_raises(driver) ==
  \/ driver.is_available = "raises"
  \/ driver.is_available = "True" /\ driver.searching = "raises"

\* fault: the except clause of the discovery loop records nothing
search_failed_silent(res, driver) == res

\* the except clause of the discovery loop
search_failed(res, driver) ==
  [res EXCEPT !.errors =
     Append(@, driver.name \o " search error: " \o EXCEPTION_TEXT)]

\* the calls run makes on the driver at index d in the discovery loop
discovery_calls(driver, d) ==
  <<[call |-> "is_available", driver |-> d]>>
    \o (IF driver.is_available = "True"
        THEN <<[call |-> "search", driver |-> d]>> ELSE <<>>)

\* fault: the first driver is taken, whatever its name
_get_driver_for_source_first(ds, source) == IF ds = <<>> THEN 0 ELSE 1

\* Orchestrator._get_driver_for_source: the index of the driver, 0 for None
_get_driver_for_source(ds, source) ==
  IF \E d \in 1..Len(ds) : ds[d].name = source
  THEN SetMin({d \in 1..Len(ds) : ds[d].name = source})
  ELSE 0

\* _apply_to_job once the driver is found
applied_with(res, job, ds, d) ==
  IF d = 0
  THEN [res EXCEPT !.errors =
          Append(@, "No driver for source: " \o job.source)]
  ELSE IF ds[d].applying = "raises"
  THEN [res EXCEPT !.applications_failed = @ + 1,
                   !.errors = Append(@, "Apply error for " \o job.url \o ": "
                                          \o EXCEPTION_TEXT)]
  ELSE IF ds[d].applying \in {"submitted", "stub_submitted"}
  THEN [res EXCEPT !.applications_submitted = @ + 1]
  ELSE [res EXCEPT !.applications_failed = @ + 1]

\* Orchestrator._apply_to_job
_apply_to_job(res, job, ds) ==
  applied_with(res, job, ds, _get_driver_for_source(ds, job.source))

\* the apply call _apply_to_job makes
apply_calls(job, ds) ==
  IF _get_driver_for_source(ds, job.source) = 0 THEN <<>>
  ELSE <<[call |-> "apply",
          driver |-> _get_driver_for_source(ds, job.source),
          job |-> job]>>

\* steps 2 and 3 of run: the counters set from the lists
counted(res, found, lists, scored_list) ==
  [res EXCEPT !.jobs_discovered = Len(found),
              !.jobs_new = Len(lists.unique),
              !.jobs_duplicates = Len(lists.duplicates),
              !.jobs_scored = Len(scored_list)]

\* fault: the except clause of the resume loop records nothing
process_failed_silent(res, job) == res

\* the except clause of the resume loop
process_failed(res, job) ==
  [res EXCEPT !.errors =
     Append(@, "Error processing " \o job.title \o " @ " \o job.company
                 \o ": " \o EXCEPTION_TEXT)]

\* the try block of the resume loop when select and generate_resume return
processed(res, job, ds, apply) ==
  IF apply
  THEN _apply_to_job([res EXCEPT !.resumes_generated = @ + 1], job, ds)
  ELSE [res EXCEPT !.resumes_generated = @ + 1]

\* the calls of the try block of the resume loop
process_calls(job, ds, apply) ==
  <<[call |-> "generate_resume", driver |-> 0, job |-> job]>>
    \o (IF apply THEN apply_calls(job, ds) ELSE <<>>)

(***************************************************************************)
(* Inputs                                                                  *)
(***************************************************************************)
\* a job description holds at most this many phrases of JD_PHRASES
MaxJDPhrases == 2

\* a scored resume is revised at most this many times
MaxRevisions == 1

\* an extracted text holds at most this many phrases of TEXT_PHRASES
MaxTextPhrases == 2

\* max_keywords ranges over 0..MaxKeywords
MaxKeywords == 2

\* a term to normalize carries at most this many blanks on each side
MaxPad == 1

\* the phrases s1 s2 ... of a set, up to n of them, joined by single blanks
RECURSIVE Joined(_, _)
Joined(phrases, n) ==
  IF n = 0 THEN {""}
  ELSE LET shorter == Joined(phrases, n - 1)
       IN  shorter \cup {IF s = "" THEN p ELSE s \o " " \o p :
                           s \in shorter, p \in phrases}

\* s repeated n times
RECURSIVE Repeat(_, _)
Repeat(s, n) ==
  IF n = 0 THEN ""
  ELSE IF n = 1 THEN s
  ELSE Repeat(s, n \div 2) \o Repeat(s, n - n \div 2)

\* tests/test_analyzer.py SAMPLE_JD (its dash written in ASCII)
SAMPLE_JD ==
  "\nSenior Backend Engineer - Acme Corp\n\nWe are looking for a Senior Backend Engineer to join our platform team.\n\nRequirements:\n- 5+ years of experience with Python\n- Strong experience with FastAPI or Django\n- PostgreSQL and Redis experience\n- Familiarity with Docker and Kubernetes\n- Experience with microservices architecture\n- CI/CD pipelines (GitHub Actions, Jenkins)\n- Strong understanding of REST APIs\n- Experience with message queues (Kafka, RabbitMQ)\n\nNice to have:\n- AWS or GCP experience\n- Machine Learning exposure\n- GraphQL experience\n\nResponsibilities:\n- Design and build scalable backend services\n- Write clean, well-tested code\n- Participate in code reviews and architectural decisions\n- Mentor junior engineers\n"

FOUR_TERMS == <<"Python", "FastAPI", "PostgreSQL", "Docker">>

JD_PHRASES == {"Python, FastAPI, PostgreSQL, Docker", "k8s", "ci/cd", "backend"}

JDTexts == Joined(JD_PHRASES, MaxJDPhrases) \cup {SAMPLE_JD}

\* a resume head with contact data, section titles, a bullet and a year
RESUME_HEAD ==
  "Summary\njane@email.com +1-555-0100\nExperience\n- Built services (2021)\nSkills:"

\* the same head followed by MIN_WORDS one-letter words
LONG_RESUME == RESUME_HEAD \o Repeat(" x", MIN_WORDS)

BaseResumes == {"", RESUME_HEAD, LONG_RESUME}

RESUME_PHRASES == {"Python FastAPI PostgreSQL Docker", "Kubernetes"}

TEXT_PHRASES ==
  {"k8s", "kubernetes", "Node.js", "ci/cd", "well-known", "the", "backend"}

BlankTexts == {"", " ", "\n", " \t "}

ExtractTexts == Joined(TEXT_PHRASES, MaxTextPhrases) \cup BlankTexts

Padded(x) == {Repeat(" ", a) \o x \o Repeat(" ", b) : a, b \in 0..MaxPad}

\* alias keys as written, in upper case, alias targets, unknown terms
NormalizeTerms ==
  UNION {Padded(x) : x \in AliasKeys \cup {upper(k) : k \in AliasKeys}
                            \cup AliasValues \cup {"Rust", "rust", "C++", ""}}

\* tests/test_discovery.py SAMPLE_PROFILE_DATA
SAMPLE_PROFILE_DATA ==
  [personal_info |-> [full_name |-> "Jane Doe"],
   summaries |-> <<[target_role |-> "Backend Engineer",
                    text |-> "Experienced backend engineer."]>>,
   skills |->
     <<[category |-> "Languages",
        items |-> <<[name |-> "Python", proficiency |-> "Expert", years |-> 6],
                    [name |-> "JavaScript", proficiency |-> "Advanced",
                     years |-> 4]>>],
       [category |-> "Frameworks",
        items |-> <<[name |-> "FastAPI", proficiency |-> "Expert", years |-> 3],
                    [name |-> "Django", proficiency |-> "Advanced",
                     years |-> 4]>>],
       [category |-> "Tools",
        items |-> <<[name |-> "Docker", proficiency |-> "Advanced", years |-> 4],
                    [name |-> "PostgreSQL", proficiency |-> "Advanced",
                     years |-> 5],
                    [name |-> "Redis", proficiency |-> "Advanced",
                     years |-> 3]>>]>>,
   experience |->
     <<[company |-> "TechCorp", title |-> "Senior Backend Engineer",
        start_date |-> "2022-03", end_date |-> None,
        bullets |-> <<[text |-> "Built event pipeline",
                       tags |-> <<"Python", "Kafka">>],
                      [text |-> "Led FastAPI migration",
                       tags |-> <<"FastAPI", "microservices">>]>>]>>,
   education |-> <<>>,
   certifications |-> <<>>,
   projects |-> <<[name |-> "CLI Tool",
                   tech_stack |-> <<"Python", "Click", "Docker">>]>>,
   qa_bank |-> <<>>]

\* a profile whose names are aliases and whose bullets and projects lack the
\* optional keys
ALIAS_PROFILE_DATA ==
  [skills |-> <<[category |-> "Ops",
                 items |-> <<[name |-> "k8s"], [name |-> "postgres"]>>]>>,
   experience |-> <<[company |-> "OpsCo", title |-> "SRE",
                     bullets |-> <<[text |-> "Ran clusters"],
                                   [text |-> "Wrote services",
                                    tags |-> <<"golang">>]>>]>>,
   projects |-> <<[name |-> "Notes"], [name |-> "Site",
                                       tech_stack |-> <<"js">>]>>]

\* tests/test_generator.py SAMPLE_PROFILE_DATA
GENERATOR_PROFILE_DATA ==
  [personal_info |-> [full_name |-> "Jane Doe",
                      email |-> "jane@email.com",
                      phone |-> "+1-555-0100",
                      location |-> "San Francisco, CA",
                      linkedin |-> "https://linkedin.com/in/janedoe",
                      github |-> "https://github.com/janedoe"],
   summaries |-> <<[target_role |-> "Backend Engineer",
                    text |-> "Experienced backend engineer with 5+ years building scalable Python services."],
                   [target_role |-> "Full Stack Developer",
                    text |-> "Full stack developer building web apps end-to-end."],
                   [target_role |-> "Data Engineer",
                    text |-> "Data engineer with pipeline and ETL expertise."]>>,
   skills |-> <<[category |-> "Languages",
                 items |-> <<[name |-> "Python",
                              proficiency |-> "Expert",
                              years |-> 6],
                             [name |-> "JavaScript",
                              proficiency |-> "Advanced",
                              years |-> 4],
                             [name |-> "Go",
                              proficiency |-> "Intermediate",
                              years |-> 1],
                             [name |-> "SQL",
                              proficiency |-> "Advanced",
                              years |-> 5]>>],
                [category |-> "Frameworks",
                 items |-> <<[name |-> "FastAPI",
                              proficiency |-> "Expert",
                              years |-> 3],
                             [name |-> "Django",
                              proficiency |-> "Advanced",
                              years |-> 4],
                             [name |-> "React",
                              proficiency |-> "Intermediate",
                              years |-> 2]>>],
                [category |-> "Tools",
                 items |-> <<[name |-> "Docker",
                              proficiency |-> "Advanced",
                              years |-> 4],
                             [name |-> "PostgreSQL",
                              proficiency |-> "Advanced",
                              years |-> 5],
                             [name |-> "Redis",
                              proficiency |-> "Advanced",
                              years |-> 3],
                             [name |-> "AWS",
                              proficiency |-> "Intermediate",
                              years |-> 3],
                             [name |-> "Kafka",
                              proficiency |-> "Intermediate",
                              years |-> 2]>>]>>,
   experience |-> <<[company |-> "TechCorp",
                     title |-> "Senior Backend Engineer",
                     location |-> "SF",
                     start_date |-> "2022-03",
                     end_date |-> None,
                     bullets |-> <<[text |-> "Built event pipeline handling 50K events/sec with Python and Kafka",
                                    tags |-> <<"Python",
                                               "Kafka",
                                               "event-driven">>],
                                   [text |-> "Led migration from Django to FastAPI microservices",
                                    tags |-> <<"Django",
                                               "FastAPI",
                                               "microservices">>],
                                   [text |-> "Implemented Redis caching reducing DB load by 60%",
                                    tags |-> <<"Redis",
                                               "caching",
                                               "database">>],
                                   [text |-> "Mentored 3 junior engineers",
                                    tags |-> <<"mentoring", "leadership">>]>>],
                    [company |-> "StartupXYZ",
                     title |-> "Software Engineer",
                     location |-> "Remote",
                     start_date |-> "2019-06",
                     end_date |-> "2022-02",
                     bullets |-> <<[text |-> "Built REST APIs serving 10K users with Django and PostgreSQL",
                                    tags |-> <<"Django",
                                               "REST",
                                               "PostgreSQL">>],
                                   [text |-> "Developed CI/CD pipeline with Docker and AWS",
                                    tags |-> <<"Docker", "CI/CD", "AWS">>],
                                   [text |-> "Created real-time notification system with WebSockets and Redis",
                                    tags |-> <<"WebSockets",
                                               "Redis",
                                               "real-time">>]>>]>>,
   education |-> <<[institution |-> "UC Berkeley",
                    degree |-> "B.S. Computer Science",
                    graduation_date |-> "2019-05",
                    gpa |-> "3.7"]>>,
   certifications |-> <<[name |-> "AWS Solutions Architect",
                         issuer |-> "AWS",
                         date |-> "2023-01"]>>,
   projects |-> <<[name |-> "DB Migrator CLI",
                   description |-> "CLI tool for automating database migrations",
                   tech_stack |-> <<"Python",
                                    "Click",
                                    "PostgreSQL",
                                    "Docker">>,
                   highlights |-> <<"500+ GitHub stars",
                                    "Used by 3 companies">>],
                  [name |-> "Real-time Dashboard",
                   description |-> "Full-stack monitoring dashboard with live metrics",
                   tech_stack |-> <<"React",
                                    "TypeScript",
                                    "FastAPI",
                                    "WebSockets">>,
                   highlights |-> <<"Sub-second data refresh">>],
                  [name |-> "ML Pipeline",
                   description |-> "Machine learning data pipeline for ETL",
                   tech_stack |-> <<"Python", "Spark", "Airflow">>,
                   highlights |-> <<"Processes 1TB daily">>]>>,
   qa_bank |-> <<>>]

\* tests/test_generator.py BACKEND_JD
BACKEND_JD ==
  "\nSenior Backend Engineer\n\nRequirements:\n- 5+ years Python experience\n- Strong experience with FastAPI or Django\n- PostgreSQL and Redis experience\n- Docker and Kubernetes\n- REST APIs and microservices\n- Kafka experience preferred\n"

\* tests/test_generator.py FRONTEND_JD
FRONTEND_JD ==
  "\nSenior Frontend Developer\n\nRequirements:\n- 5+ years JavaScript/TypeScript experience\n- React or Vue.js expertise\n- HTML, CSS, responsive design\n- GraphQL experience\n- Testing with Jest\n"

\* CandidateProfile({})
EMPTY_PROFILE_DATA == <<>>

ProfileData == {SAMPLE_PROFILE_DATA, ALIAS_PROFILE_DATA, EMPTY_PROFILE_DATA}

\* DiscoveredJob(title, company, url, source, description_text): the two
\* fields the scorer and its callers read
DiscoveredJob(title, description_text) ==
  [title |-> title, description_text |-> description_text]

\* the jobs of tests/test_discovery.py TestJobProfileScorer, and jobs whose
\* descriptions hold no text, no keyword, or aliases
DiscoveredJobs ==
  {DiscoveredJob("Unknown", ""),
   DiscoveredJob("Blank", " "),
   DiscoveredJob("iOS", "Swift UIKit needed"),
   DiscoveredJob("Backend", "Python Django PostgreSQL FastAPI needed"),
   DiscoveredJob("Full Stack", "Python React Docker needed"),
   DiscoveredJob("Platform", "Kubernetes, Go, PostgreSQL")}

MaxJobs == 2

\* the lists of at most n jobs
JobLists(n) == UNION {[1..k -> DiscoveredJobs] : k \in 0..n}

\* min_score arguments in tenths: the default 0.0, the 25.0 of
\* test_min_score_filter, and the neutral score 50.0
MinScores == {0, 250, 500}

\* a profile whose summary for backend roles has no text yet, whose skill
\* items tie in score and whose bullets tie in score
TIED_PROFILE_DATA ==
  [summaries |-> <<[target_role |-> "Frontend Developer",
                    text |-> " Builds interfaces. "],
                   [target_role |-> "Backend Engineer", text |-> ""]>>,
   skills |-> <<[category |-> "Mixed",
                 items |-> <<[name |-> "Redis", proficiency |-> "Beginner"],
                             [name |-> "Docker"],
                             [name |-> "Vue.js", proficiency |-> "Expert"],
                             [name |-> "CSS", proficiency |-> "Advanced"],
                             [name |-> "Bash", proficiency |-> "Advanced"],
                             [name |-> "Python",
                              proficiency |-> "Intermediate"]>>]>>,
   experience |-> <<[company |-> "TieCo", title |-> "Engineer",
                     bullets |-> <<[text |-> "Planned sprints"],
                                   [text |-> "Deployed with Docker",
                                    tags |-> <<"Docker">>],
                                   [text |-> "Scripted in Python"],
                                   [text |-> "Styled pages with CSS"],
                                   [text |-> "Tuned caches",
                                    tags |-> <<"Redis">>]>>],
                    [company |-> "Idle", title |-> "Intern"]>>]

SelectProfiles ==
  {GENERATOR_PROFILE_DATA, SAMPLE_PROFILE_DATA, ALIAS_PROFILE_DATA,
   TIED_PROFILE_DATA, EMPTY_PROFILE_DATA}

SelectJDs == {BACKEND_JD, FRONTEND_JD}

\* the default limits of select, the limits of test_skills_limited_by_max
\* and test_bullets_limited_per_role, and the limits of one item each
SelectLimits == {<<15, 4, 2>>, <<5, 2, 2>>, <<1, 1, 1>>}

\* select is called at most this many times on a profile
MaxSelections == 2

\* a missing keyword as ATSScorer.score lists it
Missing(keyword, importance) ==
  [keyword |-> keyword, category |-> "tool", importance |-> importance,
   frequency |-> 1]

\* missing_keywords: none, one of each importance, six of high importance,
\* one of low importance
MissingLists ==
  {<<>>,
   <<Missing("Docker", "high"), Missing("Kafka", "medium"),
     Missing("Jenkins", "low")>>,
   <<Missing("Python", "high"), Missing("FastAPI", "high"),
     Missing("Django", "high"), Missing("Redis", "high"),
     Missing("Docker", "high"), Missing("Kubernetes", "high")>>,
   <<Missing("Jenkins", "low")>>}

IssueLists ==
  {<<>>,
   <<"No email address found in resume.",
     "No dates found. Include dates for experience and education.">>}

\* ScoreResults with each score on both sides of every threshold of
\* generate_suggestions
ScoreResults ==
  {[overall_score |-> overall,
    breakdown |-> [keyword_match |-> km, section_completeness |-> sc,
                   keyword_density |-> kd, experience_relevance |-> er,
                   formatting |-> IF issues = <<>> THEN 100 ELSE 80],
    matched_keywords |-> <<>>, missing_keywords |-> missing,
    formatting_issues |-> issues] :
     overall \in {0, 59, 60, 79, 80, 100}, km \in {59, 60, 80, 81},
     sc \in {69, 70, 100}, kd \in {40, 50, 69, 70, 80, 100},
     er \in {49, 50, 70},
     missing \in MissingLists, issues \in IssueLists}

\* resume fragments: an email address, a phone number, a bullet, a year
EMAIL_PART == "jane@email.com"

PHONE_PART == "+1-555-0100"

BULLET_PART == "- built"

DATE_PART == "in 2021"

\* in this order no two fragments without the phone number read as one
ContactParts == <<EMAIL_PART, BULLET_PART, DATE_PART, PHONE_PART>>

AllParts == 1..Len(ContactParts)

\* the fragments numbered in a set, in order, each followed by a blank
RECURSIVE PartsText(_)
PartsText(parts) ==
  IF parts = {} THEN ""
  ELSE ContactParts[SetMin(parts)] \o " " \o PartsText(parts \ {SetMin(parts)})

\* "Python" as often as asked, the fragments, then as many words "x" as make
\* the text n words long (n at least the words before them)
ResumeOf(occurrences, parts, n) ==
  strip(Repeat("Python ", occurrences) \o PartsText(parts)
          \o Repeat("x ", n - occurrences - word_count(PartsText(parts))))

\* resumes of 6 words and on both sides of MIN_WORDS and MAX_WORDS, with
\* every choice of fragments, and the empty resume
FormattingResumes ==
  {ResumeOf(0, parts, n) :
     parts \in SUBSET AllParts,
     n \in {6, MIN_WORDS - 1, MIN_WORDS, MAX_WORDS, MAX_WORDS + 1}}
  \cup {""}

\* resumes of 100 words in which "Python" is written 0 to 11 times
DensityResumes ==
  {ResumeOf(occurrences, AllParts, 100) :
     occurrences \in {0, 1, 3, 4, 6, 7, 10, 11}}

\* matched_keywords: none, one keyword, and a second one that the resume
\* fragments hold once
MatchedLists == {<<>>, <<"Python">>, <<"Python", "Built">>}

\* DiscoveredJob(title, company, url, source, description_text): the fields
\* the deduplicator and the orchestrator read
JobListing(title, company, url, source, description_text) ==
  [title |-> title, company |-> company, url |-> url, source |-> source,
   description_text |-> description_text]

\* IndeedDriver.search(SearchConfig(keywords=["python"]))
INDEED_JOBS ==
  <<JobListing("Python Developer", "DevShop Inc.",
               "https://indeed.com/viewjob?jk=mock-i001", "indeed",
               "Hiring a python developer for our team..."),
    JobListing("Senior Python Engineer", "BuildCo",
               "https://indeed.com/viewjob?jk=mock-i002", "indeed",
               "Senior python engineer needed...")>>

\* the jobs of tests/test_discovery.py TestDeduplicator: test_no_duplicates,
\* test_url_normalization and test_fuzzy_title_duplicate; the two jobs the
\* Indeed driver finds; and two jobs whose keys differ in 3 of 20
\* characters, a ratio of exactly 85
Listings ==
  {JobListing("A", "B", "https://acme.com/job/1/", "a", ""),
   JobListing("A", "B", "https://Acme.com/job/1", "a", ""),
   JobListing("Senior Backend Engineer", "Acme Corp",
              "https://linkedin.com/1", "linkedin", ""),
   JobListing("Sr. Backend Engineer", "Acme Corp", "https://indeed.com/1",
              "indeed", ""),
   JobListing("Data Engineer", "Acme X", "https://x.com/1", "linkedin", ""),
   JobListing("Dota Enginear", "Acme Y", "https://y.com/1", "indeed", ""),
   INDEED_JOBS[1], INDEED_JOBS[2]}

\* deduplicate is handed at most this many jobs
MaxListings == 2

ListingLists == UNION {[1..k -> Listings] : k \in 0..MaxListings}

\* existing_urls: none, the URL of test_url_duplicate_with_existing in
\* another spelling, the URL of a third Indeed listing
ExistingURLSets ==
  {{}, {"https://ACME.com/job/1/"},
   {"https://indeed.com/viewjob?jk=mock-i003#apply"}}

\* the default threshold and the threshold of test_fuzzy_title_duplicate
LOWER_FUZZY_THRESHOLD == 80

FuzzyThresholds == {DEFAULT_FUZZY_THRESHOLD, LOWER_FUZZY_THRESHOLD}

\* LinkedInDriver.search(config)
LINKEDIN_JOBS ==
  <<JobListing("Senior Backend Engineer", "TechCorp",
               "https://linkedin.com/jobs/view/mock-001", "linkedin",
               "We are looking for a Senior Backend Engineer..."),
    JobListing("Staff Software Engineer", "InnovateLabs",
               "https://linkedin.com/jobs/view/mock-002", "linkedin",
               "InnovateLabs is hiring a Staff Software Engineer...")>>

\* a job of a third portal whose description names skills of the profile
GLASSDOOR_JOB ==
  JobListing("Platform Engineer", "Cloudy", "https://glassdoor.com/job/77",
             "glassdoor", "Python, Docker and PostgreSQL needed")

\* the two stub drivers; a LinkedIn driver without credentials whose apply
\* is answered by a captcha; an Indeed driver whose session has expired; an
\* Indeed driver whose search times out and whose apply is refused; and a
\* Glassdoor driver that also finds jobs cross-posted from the other portals
PortalDrivers ==
  {PortalDriver("indeed", "True", "returns", INDEED_JOBS, "stub_submitted"),
   PortalDriver("linkedin", "True", "returns", LINKEDIN_JOBS, "submitted"),
   PortalDriver("linkedin", "False", "returns", LINKEDIN_JOBS,
                "captcha_required"),
   PortalDriver("indeed", "raises", "returns", INDEED_JOBS, "raises"),
   PortalDriver("indeed", "True", "raises", <<>>, "rejected"),
   PortalDriver("glassdoor", "True", "returns",
                <<GLASSDOOR_JOB, INDEED_JOBS[2], LINKEDIN_JOBS[1]>>,
                "stub_submitted")}

\* an orchestrator has at most this many drivers
MaxDrivers == 2

DriverLists == UNION {[1..k -> PortalDrivers] : k \in 0..MaxDrivers}

\* at most this many resume generations of a run raise
MaxFailures == 1

\* Orchestrator(drivers, profile, min_score=, auto_apply=, existing_urls=):
\* the arguments of the tests of TestOrchestrator, and a min_score of 25.0
OrchestratorSetups ==
  {[min_score |-> 0, auto_apply |-> FALSE, existing_urls |-> {}],
   [min_score |-> 0, auto_apply |-> TRUE, existing_urls |-> {}],
   [min_score |-> 0, auto_apply |-> TRUE,
    existing_urls |-> {"https://indeed.com/viewjob?jk=mock-i001"}],
   [min_score |-> 250, auto_apply |-> TRUE, existing_urls |-> {}]}

(***************************************************************************)
(* State                                                                   *)
(***************************************************************************)
VARIABLES
  jd_text,       \* the job description of the scoring session
  resume_text,   \* the resume last scored against it
  result,        \* the ScoreResult of the latest ATSScorer.score call
  previous,      \* the ScoreResult of the call before
  scored,        \* number of ATSScorer.score calls made
  text,          \* the text handed to the extractor
  max_keywords,  \* its max_keywords argument
  extraction,    \* the KeywordExtractionResult of extract_keywords
  weighted,      \* the list of extract_keywords_with_importance
  called,        \* which extractor entry point has returned
  term,          \* the string handed to normalize_keyword
  once,          \* normalize_keyword(term)
  twice,         \* normalize_keyword(once)
  applied,       \* number of normalize_keyword calls made
  profile,       \* the data of the CandidateProfile
  jobs,          \* the list passed to score_and_rank
  min_score,     \* its min_score argument, in tenths
  scored_job,    \* the job of the latest JobProfileScorer.score call
  match,         \* the score that call returned, in tenths
  ranked,        \* the list of (job, score) the latest score_and_rank returned
  returned,      \* which of the two has returned: "score", "score_and_rank"
  select_args,   \* the arguments of the ContentSelector.select calls
  selections,    \* the SelectedContent objects returned so far
  edited,        \* a caller has modified a returned SelectedContent
  score_result,  \* the ScoreResult handed to generate_suggestions
  suggestions,   \* the list it returned
  suggested,     \* generate_suggestions has returned
  measured,      \* the resume text and matched keywords handed to the two
                 \* component scorers
  density,       \* what _score_keyword_density returned
  formatting,    \* what _score_formatting returned: score and issues
  components,    \* which of the two have returned
  drivers,       \* Orchestrator.drivers: what each portal driver will do
  auto_apply,    \* Orchestrator.auto_apply
  existing_urls, \* the existing_urls of the orchestrator or of deduplicate
  fuzzy_threshold, \* Deduplicator.fuzzy_threshold
  all_jobs,      \* the jobs found so far; the new_jobs of deduplicate
  unique_jobs,   \* the first list deduplicate returned
  duplicates,    \* the second list deduplicate returned
  scored_jobs,   \* the list score_and_rank returned to run
  stage,         \* where run or deduplicate stands
  position,      \* the index of the next driver or of the next scored job
  pipeline_result, \* the PipelineResult of run
  calls          \* the driver calls and resume generations made, in order

vars == <<jd_text, resume_text, result, previous, scored, text, max_keywords,
          extraction, weighted, called, term, once, twice, applied,
          profile, jobs, min_score, scored_job, match, ranked, returned,
          select_args, selections, edited,
          score_result, suggestions, suggested,
          measured, density, formatting, components,
          drivers, auto_apply, existing_urls, fuzzy_threshold, all_jobs,
          unique_jobs, duplicates, scored_jobs, stage, position,
          pipeline_result, calls>>

scorer_vars == <<jd_text, resume_text, result, previous, scored>>

extractor_vars == <<text, max_keywords, extraction, weighted, called>>

normalizer_vars == <<term, once, twice, applied>>

\* ScoreResult(): the dataclass defaults
ScoreResult ==
  [overall_score |-> 0,
   breakdown |-> [keyword_match |-> 0, section_completeness |-> 0,
                  keyword_density |-> 0, experience_relevance |-> 0,
                  formatting |-> 0],
   matched_keywords |-> <<>>, missing_keywords |-> <<>>,
   formatting_issues |-> <<>>]

ScorerIdle ==
  /\ jd_text = "" /\ resume_text = ""
  /\ result = ScoreResult /\ previous = ScoreResult /\ scored = 0

ExtractorIdle ==
  /\ text = "" /\ max_keywords = 0
  /\ extraction = KeywordExtractionResult("") /\ weighted = <<>>
  /\ called = "none"

NormalizerIdle == term = "" /\ once = "" /\ twice = "" /\ applied = 0

ranking_vars == <<jobs, min_score, scored_job, match, ranked, returned>>

RankingIdle ==
  /\ jobs = <<>> /\ min_score = 0
  /\ scored_job = DiscoveredJob("", "") /\ match = 0 /\ ranked = <<>>
  /\ returned = "none"

discovery_vars == <<profile, ranking_vars>>

DiscoveryIdle == profile = EMPTY_PROFILE_DATA /\ RankingIdle

generator_vars == <<select_args, selections, edited>>

\* select(profile, jd_text) with the default limits
SelectArgs(jd_text_, max_skills, max_bullets_per_role, max_projects) ==
  [jd_text |-> jd_text_, max_skills |-> max_skills,
   max_bullets_per_role |-> max_bullets_per_role,
   max_projects |-> max_projects]

GeneratorIdle ==
  /\ select_args = SelectArgs("", 15, 4, 2)
  /\ selections = <<>> /\ edited = FALSE

advisor_vars == <<score_result, suggestions, suggested>>

AdvisorIdle ==
  score_result = ScoreResult /\ suggestions = <<>> /\ suggested = FALSE

component_vars == <<measured, density, formatting, components>>

ComponentsIdle ==
  /\ measured = [resume_text |-> "", matched_keywords |-> <<>>]
  /\ density = 0 /\ formatting = [score |-> 0, issues |-> <<>>]
  /\ components = {}

pipeline_vars ==
  <<drivers, auto_apply, existing_urls, fuzzy_threshold, all_jobs,
    unique_jobs, duplicates, scored_jobs, stage, position, pipeline_result,
    calls>>

\* PipelineResult(): the dataclass defaults
PipelineResult ==
  [jobs_discovered |-> 0, jobs_new |-> 0, jobs_duplicates |-> 0,
   jobs_scored |-> 0, resumes_generated |-> 0, applications_submitted |-> 0,
   applications_failed |-> 0, errors |-> <<>>]

PipelineIdle ==
  /\ drivers = <<>> /\ auto_apply = FALSE /\ existing_urls = {}
  /\ fuzzy_threshold = DEFAULT_FUZZY_THRESHOLD
  /\ all_jobs = <<>> /\ unique_jobs = <<>> /\ duplicates = <<>>
  /\ scored_jobs = <<>> /\ stage = "idle" /\ position = 0
  /\ pipeline_result = PipelineResult /\ calls = <<>>

\* the variables of the components other than the analyzer
other_vars ==
  <<discovery_vars, generator_vars, advisor_vars, component_vars, pipeline_vars>>

OthersIdle ==
  DiscoveryIdle /\ GeneratorIdle /\ AdvisorIdle /\ ComponentsIdle /\ PipelineIdle

(***************************************************************************)
(* Scoring session: a job description is fixed, a resume is scored against *)
(* it, then revised (text appended) and scored again.                      *)
(***************************************************************************)
Init ==
  /\ jd_text \in JDTexts
  /\ resume_text = ""
  /\ result = ScoreResult /\ previous = ScoreResult /\ scored = 0
  /\ ExtractorIdle /\ NormalizerIdle /\ OthersIdle

\* ATSScorer.score(resume, jd_text)
Score(resume) ==
  /\ resume_text' = resume
  /\ result' \in score(resume, jd_text)
  /\ previous' = result
  /\ scored' = scored + 1
  /\ UNCHANGED <<jd_text, extractor_vars, normalizer_vars, other_vars>>

\* the first resume scored: a prepared one
ScoreResume ==
  /\ scored = 0
  /\ \E resume \in BaseResumes : Score(resume)

\* the first resume scored: the job description itself
\* (test_identical_texts_score_high)
ScoreIdentical ==
  /\ scored = 0
  /\ Score(jd_text)

\* a phrase the resume does not hold yet is appended to it, and it is scored
\* again
ReviseAndScore ==
  /\ scored >= 1
  /\ scored <= MaxRevisions
  /\ \E phrase \in RESUME_PHRASES :
       /\ ~contains(resume_text, phrase)
       /\ Score(resume_text \o " " \o phrase)

Next == ScoreResume \/ ScoreIdentical \/ ReviseAndScore

Spec == Init /\ [][Next]_vars

(***************************************************************************)
(* Extraction: one call of either entry point on a text                    *)
(***************************************************************************)
InitExtract ==
  /\ text \in ExtractTexts
  /\ max_keywords \in 0..MaxKeywords
  /\ extraction = KeywordExtractionResult("") /\ weighted = <<>>
  /\ called = "none"
  /\ ScorerIdle /\ NormalizerIdle /\ OthersIdle

Extract ==
  /\ called = "none"
  /\ extraction' = extract_keywords(text, max_keywords)
  /\ called' = "extract_keywords"
  /\ UNCHANGED <<text, max_keywords, weighted, scorer_vars, normalizer_vars,
               other_vars>>

ExtractWithImportance ==
  /\ called = "none"
  /\ weighted' = extract_keywords_with_importance(text, max_keywords)
  /\ called' = "extract_keywords_with_importance"
  /\ UNCHANGED <<text, max_keywords, extraction, scorer_vars, normalizer_vars,
               other_vars>>

NextExtract == Extract \/ ExtractWithImportance

SpecExtract == InitExtract /\ [][NextExtract]_vars

(***************************************************************************)
(* Normalization: normalize_keyword applied to a term, then to its result  *)
(***************************************************************************)
InitNormalize ==
  /\ term \in NormalizeTerms
  /\ once = "" /\ twice = "" /\ applied = 0
  /\ ScorerIdle /\ ExtractorIdle /\ OthersIdle

Normalize ==
  /\ applied = 0
  /\ once' = normalize_keyword(term)
  /\ applied' = 1
  /\ UNCHANGED <<term, twice, scorer_vars, extractor_vars, other_vars>>

NormalizeAgain ==
  /\ applied = 1
  /\ twice' = normalize_keyword(once)
  /\ applied' = 2
  /\ UNCHANGED <<term, once, scorer_vars, extractor_vars, other_vars>>

NextNormalize == Normalize \/ NormalizeAgain

SpecNormalize == InitNormalize /\ [][NextNormalize]_vars

(***************************************************************************)
(* Discovery: jobs are scored against a profile one by one with score, or  *)
(* as a list with score_and_rank.                                          *)
(***************************************************************************)
analyzer_vars == <<scorer_vars, extractor_vars, normalizer_vars>>

AnalyzerIdle == ScorerIdle /\ ExtractorIdle /\ NormalizerIdle

InitRank ==
  /\ profile \in ProfileData
  /\ jobs \in JobLists(MaxJobs)
  /\ min_score \in MinScores
  /\ scored_job = DiscoveredJob("", "") /\ match = 0 /\ ranked = <<>>
  /\ returned = "none"
  /\ AnalyzerIdle /\ GeneratorIdle /\ AdvisorIdle /\ ComponentsIdle /\ PipelineIdle

ScoreJob ==
  /\ returned = "none"
  /\ \E j \in 1..Len(jobs) :
       /\ scored_job' = jobs[j]
       /\ match' = JobProfileScorer_score(jobs[j], profile)
  /\ returned' = "score"
  /\ UNCHANGED <<profile, jobs, min_score, ranked, analyzer_vars,
               generator_vars, advisor_vars, component_vars, pipeline_vars>>

ScoreAndRank ==
  /\ returned = "none"
  /\ ranked' = score_and_rank(jobs, profile, min_score)
  /\ returned' = "score_and_rank"
  /\ UNCHANGED <<profile, jobs, min_score, scored_job, match, analyzer_vars,
               generator_vars, advisor_vars, component_vars, pipeline_vars>>

NextRank == ScoreJob \/ ScoreAndRank

SpecRank == InitRank /\ [][NextRank]_vars

(***************************************************************************)
(* Selection: select is called on a profile, its callers hold the results  *)
(* and one of them modifies what it was given.                             *)
(***************************************************************************)
InitSelect ==
  /\ profile \in SelectProfiles
  /\ \E jd \in SelectJDs, limits \in SelectLimits :
       select_args = SelectArgs(jd, limits[1], limits[2], limits[3])
  /\ selections = <<>> /\ edited = FALSE
  /\ RankingIdle /\ AnalyzerIdle /\ AdvisorIdle /\ ComponentsIdle /\ PipelineIdle

\* select(profile, **select_args) once the keywords of the JD are extracted
SelectWith(keywords) ==
  /\ selections' =
       Append(selections,
              SelectedContent(profile, select_args.jd_text, keywords,
                              select_args.max_skills,
                              select_args.max_bullets_per_role,
                              select_args.max_projects))
  /\ profile' = left_by_select(profile, canonical_set(keywords))

Select ==
  /\ Len(selections) < MaxSelections
  /\ SelectWith(extract_keywords(select_args.jd_text, 25).keywords)
  /\ UNCHANGED <<select_args, edited, ranking_vars, analyzer_vars,
               advisor_vars, component_vars, pipeline_vars>>

\* a caller modifies an object its SelectedContent shares with the profile
EditShared ==
  /\ ~edited
  /\ \E k \in 1..Len(selections) :
       \E ref \in shared_in(selections[k]) :
         profile' = Assigned(profile, ref,
                             modified(ref.kind, Deref(profile, ref)))
  /\ edited' = TRUE
  /\ UNCHANGED <<select_args, selections, ranking_vars, analyzer_vars,
               advisor_vars, component_vars, pipeline_vars>>

\* a caller modifies a container select built for its SelectedContent
EditOwn ==
  /\ ~edited
  /\ \E k \in 1..Len(selections) :
       selections' =
         [selections EXCEPT ![k].skills = Append(@, "edited")]
  /\ edited' = TRUE
  /\ UNCHANGED <<profile, select_args, ranking_vars, analyzer_vars,
               advisor_vars, component_vars, pipeline_vars>>

NextSelect == Select \/ EditShared \/ EditOwn

SpecSelect == InitSelect /\ [][NextSelect]_vars

(***************************************************************************)
(* Advice: generate_suggestions is called on a ScoreResult                 *)
(***************************************************************************)
InitSuggest ==
  /\ score_result \in ScoreResults
  /\ suggestions = <<>> /\ suggested = FALSE
  /\ AnalyzerIdle /\ DiscoveryIdle /\ GeneratorIdle /\ ComponentsIdle /\ PipelineIdle

Suggest ==
  /\ ~suggested
  /\ suggestions' = generate_suggestions(score_result)
  /\ suggested' = TRUE
  /\ UNCHANGED <<score_result, analyzer_vars, discovery_vars, generator_vars,
               component_vars, pipeline_vars>>

NextSuggest == Suggest

SpecSuggest == InitSuggest /\ [][NextSuggest]_vars

(***************************************************************************)
(* Component scorers: _score_keyword_density and _score_formatting are     *)
(* each called once on a resume                                            *)
(***************************************************************************)
InitComponents ==
  /\ \E resume \in FormattingResumes \cup DensityResumes,
        matched \in MatchedLists :
       measured = [resume_text |-> resume, matched_keywords |-> matched]
  /\ density = 0 /\ formatting = [score |-> 0, issues |-> <<>>]
  /\ components = {}
  /\ AnalyzerIdle /\ DiscoveryIdle /\ GeneratorIdle /\ AdvisorIdle
  /\ PipelineIdle

ScoreKeywordDensity ==
  /\ "keyword_density" \notin components
  /\ density' = _score_keyword_density(measured.resume_text,
                                       measured.matched_keywords)
  /\ components' = components \cup {"keyword_density"}
  /\ UNCHANGED <<measured, formatting, analyzer_vars, discovery_vars,
                 generator_vars, advisor_vars, pipeline_vars>>

ScoreFormatting ==
  /\ "formatting" \notin components
  /\ formatting' = _score_formatting(measured.resume_text)
  /\ components' = components \cup {"formatting"}
  /\ UNCHANGED <<measured, density, analyzer_vars, discovery_vars,
                 generator_vars, advisor_vars, pipeline_vars>>

NextComponents == ScoreKeywordDensity \/ ScoreFormatting

SpecComponents == InitComponents /\ [][NextComponents]_vars

(***************************************************************************)
(* Deduplication: deduplicate is called on a list of new jobs              *)
(***************************************************************************)
InitDedup ==
  /\ all_jobs \in ListingLists
  /\ existing_urls \in ExistingURLSets
  /\ fuzzy_threshold \in FuzzyThresholds
  /\ stage = "new"
  /\ drivers = <<>> /\ auto_apply = FALSE
  /\ unique_jobs = <<>> /\ duplicates = <<>>
  /\ scored_jobs = <<>> /\ position = 0
  /\ pipeline_result = PipelineResult /\ calls = <<>>
  /\ AnalyzerIdle /\ DiscoveryIdle /\ GeneratorIdle /\ AdvisorIdle
  /\ ComponentsIdle

\* the lists deduplicate returns are taken
Deduplicated(lists) ==
  /\ unique_jobs' = lists.unique
  /\ duplicates' = lists.duplicates

\* Deduplicator(fuzzy_threshold).deduplicate(all_jobs, existing_urls)
Deduplicate ==
  /\ stage = "new"
  /\ Deduplicated(deduplicate(all_jobs, existing_urls, fuzzy_threshold))
  /\ stage' = "deduplicated"
  /\ UNCHANGED <<drivers, auto_apply, existing_urls, fuzzy_threshold,
                 all_jobs, scored_jobs, position, pipeline_result, calls,
                 analyzer_vars, discovery_vars, generator_vars, advisor_vars,
                 component_vars>>

NextDedup == Deduplicate

SpecDedup == InitDedup /\ [][NextDedup]_vars

(***************************************************************************)
(* Pipeline: Orchestrator.run queries its drivers one after the other,     *)
(* deduplicates and scores what they found, then generates a resume for    *)
(* each scored job and applies                                             *)
(***************************************************************************)
InitRun ==
  /\ drivers \in DriverLists
  /\ \E setup \in OrchestratorSetups :
       /\ min_score = setup.min_score
       /\ auto_apply = setup.auto_apply
       /\ existing_urls = setup.existing_urls
  /\ profile = SAMPLE_PROFILE_DATA
  /\ fuzzy_threshold = DEFAULT_FUZZY_THRESHOLD
  /\ stage = "discover" /\ position = 1
  /\ all_jobs = <<>> /\ unique_jobs = <<>> /\ duplicates = <<>>
  /\ scored_jobs = <<>>
  /\ pipeline_result = PipelineResult /\ calls = <<>>
  /\ jobs = <<>> /\ scored_job = DiscoveredJob("", "") /\ match = 0
  /\ ranked = <<>> /\ returned = "none"
  /\ AnalyzerIdle /\ GeneratorIdle /\ AdvisorIdle /\ ComponentsIdle

\* one pass of the loop over self.drivers
QueryDriver ==
  /\ stage = "discover" /\ position <= Len(drivers)
  /\ calls' = calls \o discovery_calls(drivers[position], position)
  /\ all_jobs' = (IF answers(drivers[position])
                  THEN all_jobs \o drivers[position].found ELSE all_jobs)
  /\ pipeline_result' = (IF search_raises(drivers[position])
                         THEN search_failed(pipeline_result, drivers[position])
                         ELSE pipeline_result)
  /\ position' = position + 1
  /\ UNCHANGED <<drivers, auto_apply, existing_urls, fuzzy_threshold,
                 unique_jobs, duplicates, scored_jobs, stage,
                 analyzer_vars, discovery_vars, generator_vars, advisor_vars,
                 component_vars>>

\* steps 2 and 3 once deduplicate has returned
Ranked(lists, scored_list) ==
  /\ Deduplicated(lists)
  /\ scored_jobs' = scored_list
  /\ pipeline_result' = counted(pipeline_result, all_jobs, lists, scored_list)

\* step 3 on the unique jobs of step 2
RankedFrom(lists) ==
  Ranked(lists, score_and_rank(lists.unique, profile, min_score))

\* steps 2 and 3 of run, after the last driver
DeduplicateAndScore ==
  /\ stage = "discover" /\ position > Len(drivers)
  /\ RankedFrom(deduplicate(all_jobs, existing_urls, fuzzy_threshold))
  /\ stage' = "process" /\ position' = 1
  /\ UNCHANGED <<drivers, auto_apply, existing_urls, fuzzy_threshold,
                 all_jobs, calls,
                 analyzer_vars, discovery_vars, generator_vars, advisor_vars,
                 component_vars>>

\* one pass of the loop over scored_jobs: select or generate_resume raises,
\* or both return
ProcessJob ==
  /\ stage = "process" /\ position <= Len(scored_jobs)
  /\ \/ /\ position - 1 - pipeline_result.resumes_generated < MaxFailures
        /\ pipeline_result' =
             process_failed(pipeline_result, scored_jobs[position][1])
        /\ calls' = calls
     \/ /\ pipeline_result' = processed(pipeline_result,
                                        scored_jobs[position][1], drivers,
                                        auto_apply)
        /\ calls' = calls \o process_calls(scored_jobs[position][1], drivers,
                                           auto_apply)
  /\ position' = position + 1
  /\ UNCHANGED <<drivers, auto_apply, existing_urls, fuzzy_threshold,
                 all_jobs, unique_jobs, duplicates, scored_jobs, stage,
                 analyzer_vars, discovery_vars, generator_vars, advisor_vars,
                 component_vars>>

\* return result
Return ==
  /\ stage = "process" /\ position > Len(scored_jobs)
  /\ stage' = "returned"
  /\ UNCHANGED <<drivers, auto_apply, existing_urls, fuzzy_threshold,
                 all_jobs, unique_jobs, duplicates, scored_jobs, position,
                 pipeline_result, calls,
                 analyzer_vars, discovery_vars, generator_vars, advisor_vars,
                 component_vars>>

NextRun == QueryDriver \/ DeduplicateAndScore \/ ProcessJob \/ Return

SpecRun == InitRun /\ [][NextRun]_vars

(***************************************************************************)
(* Properties                                                              *)
(***************************************************************************)
Percent == 0..100

\* the weighted sum of a breakdown, in hundredths, with the documented weights
WeightedSum(b) ==
  40 * b.keyword_match
    + 15 * (b.section_completeness + b.keyword_density
              + b.experience_relevance + b.formatting)

\* v is an integer nearest to n / d (d > 0)
Nearest(v, n, d) == 2 * (v * d - n) <= d /\ 2 * (n - v * d) <= d

\* C1: every ScoreResult returned by ATSScorer.score, for any two texts
\* (empty ones included), has overall_score in 0..100 and each of the five
\* breakdown fields in 0..100.
C1_ScoresWithinRange ==
  scored >= 1 =>
    /\ result.overall_score \in Percent
    /\ result.breakdown.keyword_match \in Percent
    /\ result.breakdown.section_completeness \in Percent
    /\ result.breakdown.keyword_density \in Percent
    /\ result.breakdown.experience_relevance \in Percent
    /\ result.breakdown.formatting \in Percent

\* a result whose keyword, relevance and formatting fields are at the upper end
C1_Witness ==
  /\ scored >= 1
  /\ result.breakdown.keyword_match = 100
  /\ result.breakdown.experience_relevance = 100
  /\ result.breakdown.formatting = 100
  /\ result.matched_keywords # <<>>
  /\ result.overall_score > 80

\* C2: overall_score is the rounding of the weighted sum (0.40, 0.15, 0.15,
\* 0.15, 0.15) of the breakdown stored in the same result, i.e. an integer
\* nearest to (40*km + 15*(sc + kd + er + fmt)) / 100, and the five weights
\* sum to 1.0.
C2_OverallIsWeightedSum ==
  /\ WEIGHTS.keyword_match + WEIGHTS.section_completeness
       + WEIGHTS.keyword_density + WEIGHTS.experience_relevance
       + WEIGHTS.formatting = 100
  /\ scored >= 1 =>
       Nearest(result.overall_score, WeightedSum(result.breakdown), 100)

\* a result whose weighted sum is not a whole number, so that it was rounded
C2_Witness ==
  /\ scored >= 1
  /\ WeightedSum(result.breakdown) % 100 \notin {0, 50}
  /\ result.breakdown.keyword_match \in 1..99

\* the importance weight the documentation gives: high 3, medium 2, low 1
DocumentedWeight(importance) ==
  IF importance = "high" THEN 3 ELSE IF importance = "medium" THEN 2 ELSE 1

DocumentedWeightSum(infos) ==
  LET w == [k \in 1..Len(infos) |-> DocumentedWeight(infos[k].importance)]
  IN  SumOf(w, 1..Len(infos))

\* C3: keyword_match is 100, with empty matched and missing lists, when the JD
\* yields no keywords; otherwise each of the (at most 25) JD keywords is in
\* exactly one of matched (its canonical form occurs case-insensitively in
\* the resume) or missing, and keyword_match is the rounding of
\* 100 * (weight of the matched) / (weight of all), at most 100, with weights
\* high 3, medium 2, low 1.
C3_KeywordMatchRule ==
  scored >= 1 =>
    LET infos == extract_keywords_with_importance(jd_text, 25)
        matched == SeqToSet(result.matched_keywords)
        missing == SeqToSet(result.missing_keywords)
        InResume(info) == contains(lower(resume_text), lower(info.keyword))
        total == DocumentedWeightSum(infos)
        absent == DocumentedWeightSum(result.missing_keywords)
    IN  IF infos = <<>>
          THEN /\ result.breakdown.keyword_match = 100
               /\ result.matched_keywords = <<>>
               /\ result.missing_keywords = <<>>
          ELSE /\ Len(infos) <= 25
               /\ \A k \in 1..Len(infos) :
                    /\ (infos[k].keyword \in matched) # (infos[k] \in missing)
                    /\ (infos[k].keyword \in matched) = InResume(infos[k])
               /\ matched \subseteq {infos[k].keyword : k \in 1..Len(infos)}
               /\ missing \subseteq SeqToSet(infos)
               /\ Len(result.matched_keywords) + Len(result.missing_keywords)
                    = Len(infos)
               /\ result.breakdown.keyword_match <= 100
               /\ Nearest(result.breakdown.keyword_match,
                          100 * (total - absent), total)

\* some keywords matched, and a missing one that does not weigh 3
C3_Witness ==
  /\ scored >= 1
  /\ result.matched_keywords # <<>>
  /\ \E k \in 1..Len(result.missing_keywords) :
       result.missing_keywords[k].importance # "high"
  /\ result.breakdown.keyword_match \in 1..99

\* C4 (as claimed): scoring a job description against itself yields
\* keyword_match >= 80.
C4_IdenticalTextsScoreHigh ==
  (scored = 1 /\ resume_text = jd_text) =>
    result.breakdown.keyword_match >= 80

\* C5: for a fixed JD, if the JD keywords found in one resume are a subset of
\* those found in another, the other resume's keyword_match is not lower.
C5_KeywordMatchMonotone ==
  (scored >= 2 /\ SeqToSet(previous.matched_keywords)
                    \subseteq SeqToSet(result.matched_keywords)) =>
    result.breakdown.keyword_match >= previous.breakdown.keyword_match

\* the revision added matched keywords and did not yet match them all
C5_Witness ==
  /\ scored >= 2
  /\ SeqToSet(previous.matched_keywords) # SeqToSet(result.matched_keywords)
  /\ SeqToSet(previous.matched_keywords)
       \subseteq SeqToSet(result.matched_keywords)
  /\ result.breakdown.keyword_match > previous.breakdown.keyword_match
  /\ result.missing_keywords # <<>>

\* the scenario of C6: the JD contains the four terms, the resume contains
\* them too, and a bullet, an email address, a phone number and a year
FourTermsScenario ==
  /\ scored >= 1
  /\ \A k \in 1..Len(FOUR_TERMS) :
       contains(jd_text, FOUR_TERMS[k]) /\ contains(resume_text, FOUR_TERMS[k])
  /\ has_bullets(resume_text)
  /\ has_email(resume_text)
  /\ has_phone(resume_text)
  /\ has_dates(resume_text)

\* C6 (as claimed): in that scenario formatting is 100 and keyword_match is at
\* least 75, whatever the length of the resume and the other words of the JD.
C6_FourTermsOriginal ==
  FourTermsScenario =>
    /\ result.breakdown.formatting = 100
    /\ result.breakdown.keyword_match >= 75

\* C6 (amended): in that scenario formatting is 100 exactly when the resume
\* has between 150 and 1200 words, and keyword_match is at least 75 when the
\* JD keywords missing from the resume carry at most a quarter of the weight
\* of all JD keywords.
C6_FourTermsAmended ==
  FourTermsScenario =>
    LET words == word_count(resume_text)
        total == DocumentedWeightSum(
                   extract_keywords_with_importance(jd_text, 25))
        absent == DocumentedWeightSum(result.missing_keywords)
    IN  /\ (result.breakdown.formatting = 100) = (words >= 150 /\ words <= 1200)
        /\ 4 * absent <= total => result.breakdown.keyword_match >= 75

\* the scenario with a resume long enough and a JD keyword that is missing
C6_Witness ==
  /\ FourTermsScenario
  /\ result.breakdown.formatting = 100
  /\ result.missing_keywords # <<>>
  /\ result.breakdown.keyword_match \in 75..99

\* C7: extract_keywords(text, N) returns at most N records, and
\* extract_keywords_with_importance(text, N) at most N entries.
C7_AtMostMaxKeywords ==
  /\ called = "extract_keywords" => Len(extraction.keywords) <= max_keywords
  /\ called = "extract_keywords_with_importance" =>
       Len(weighted) <= max_keywords

\* a text with more than 2 * N distinct terms, cut down to N > 0 records
C7_Witness ==
  /\ called = "extract_keywords"
  /\ max_keywords > 0
  /\ Len(term_frequencies(text)) > 2 * max_keywords
  /\ Len(extraction.keywords) = max_keywords

\* the candidate terms harvested from a text: the matches of the four
\* technical-term patterns, then the single words kept
Harvest(t) ==
  LET Kept(w) == w \notin STOP_WORDS /\ Len(w) > 2
  IN  _extract_technical_terms(t) \o SelectSeq(findall("word", lower(t)), Kept)

\* C8: no two records of a result share a canonical form, and the frequency
\* of a record is the number of harvested candidate terms whose normalized
\* form is its canonical form.
C8_MergedByCanonical ==
  called = "extract_keywords" =>
    LET kws == extraction.keywords
        harvest == Harvest(text)
    IN  /\ \A i, j \in 1..Len(kws) :
             kws[i].canonical = kws[j].canonical => i = j
        /\ \A i \in 1..Len(kws) :
             kws[i].frequency =
               Cardinality({k \in 1..Len(harvest) :
                              normalize_keyword(harvest[k]) = kws[i].canonical})

\* "k8s" and "kubernetes" in one text: one Kubernetes record counting both
C8_Witness ==
  /\ called = "extract_keywords"
  /\ contains(text, "k8s") /\ contains(text, "kubernetes")
  /\ Cardinality({i \in 1..Len(extraction.keywords) :
                    /\ extraction.keywords[i].canonical = "Kubernetes"
                    /\ extraction.keywords[i].frequency = 4}) = 1

\* C9: normalize_keyword(normalize_keyword(x)) = normalize_keyword(x);
\* equivalently every alias target, lowercased, is not an alias key or is a
\* key of that same target.
C9_NormalizeIdempotent ==
  /\ applied = 2 => twice = once
  /\ \A v \in AliasValues :
       lower(v) \in AliasKeys => AliasGet(lower(v), "") = v

\* a padded alias, resolved by the first call
C9_Witness ==
  /\ applied = 2
  /\ term # strip(term)
  /\ once # strip(term)
  /\ once \in AliasValues

\* C10: extract_keywords on an empty or whitespace-only text returns an empty
\* keyword list, for every max_keywords.
C10_BlankTextGivesNothing ==
  (called = "extract_keywords" /\ strip(text) = "") =>
    extraction.keywords = <<>>

\* a whitespace-only text, extracted with a positive max_keywords
C10_Witness ==
  /\ called = "extract_keywords"
  /\ text # "" /\ strip(text) = ""
  /\ max_keywords > 0
  /\ extraction.raw_text = text

\* C11: JobProfileScorer.score returns exactly 0.0, whatever the profile,
\* when the job has no description text.
C11_NoDescriptionScoresZero ==
  (returned = "score" /\ scored_job.description_text = "") => match = 0

\* score has returned for the job without description and a profile that has
\* skills
C11_Witness ==
  /\ returned = "score"
  /\ scored_job.description_text = ""
  /\ profile = SAMPLE_PROFILE_DATA
  /\ match = 0

\* scores is the list of the scores of the jobs: ranked holds one pair per job
\* whose score reaches min_score, each at the position after the qualifying
\* jobs that score higher or score the same and come earlier in the input
StablyRanked(scores) ==
  LET Qualifying == {i \in 1..Len(jobs) : scores[i] >= min_score}
      Ahead(i) == Cardinality({j \in Qualifying :
                    \/ scores[j] > scores[i]
                    \/ (scores[j] = scores[i] /\ j < i)})
  IN  /\ Len(ranked) = Cardinality(Qualifying)
      /\ \A i \in Qualifying : ranked[Ahead(i) + 1] = <<jobs[i], scores[i]>>

\* C12: score_and_rank returns one pair (job, score(job, profile)) for each
\* input job whose score is at least min_score and no other pair, ordered by
\* score descending, jobs of equal score in their input order.
C12_RankedIsFilteredStableOrder ==
  returned = "score_and_rank" =>
    StablyRanked(List([i \in 1..Len(jobs) |->
                         JobProfileScorer_score(jobs[i], profile)]))

\* two different jobs whose scores both equal a positive min_score are kept,
\* in their input order
C12_Witness ==
  /\ returned = "score_and_rank"
  /\ Len(jobs) = 2 /\ jobs[1] # jobs[2]
  /\ min_score > 0
  /\ Len(ranked) = 2
  /\ ranked[1][2] = min_score /\ ranked[2][2] = min_score
  /\ ranked[1][1] = jobs[1] /\ ranked[2][1] = jobs[2]

\* the strings a profile lists: skill names, bullet tags, tech-stack entries
ProfileNames(data) ==
  LET skills == SeqToSet(Get(data, "skills", <<>>))
      experience == SeqToSet(Get(data, "experience", <<>>))
      projects == SeqToSet(Get(data, "projects", <<>>))
      ItemsOf(c) == SeqToSet(Get(c, "items", <<>>))
      BulletsOf(e) == SeqToSet(Get(e, "bullets", <<>>))
      TagsOf(b) == SeqToSet(Get(b, "tags", <<>>))
      TechOf(p) == SeqToSet(Get(p, "tech_stack", <<>>))
  IN  UNION {{item.name : item \in ItemsOf(c)} : c \in skills}
        \cup UNION {UNION {TagsOf(b) : b \in BulletsOf(e)} : e \in experience}
        \cup UNION {TechOf(p) : p \in projects}

\* J: the lowercased canonical forms of the up to 25 keywords of a description
JobTerms(description) ==
  LET keywords == extract_keywords(description, 25).keywords
  IN  {lower(keywords[k].canonical) : k \in 1..Len(keywords)}

\* C: the alias-normalized, lowercased names of a profile
CandidateTerms(data) ==
  {lower(normalize_keyword(name)) : name \in ProfileNames(data)}

\* the documented score in tenths for the term sets J and C, as a predicate
\* on the returned value: 50.0 without terms, else the tenth nearest to
\* 100 * |J \cap C| / |J|, at most 100.0
DocumentedMatch(value, J, C) ==
  IF J = {} THEN value = 500
  ELSE /\ Nearest(value, 1000 * Cardinality(J \cap C), Cardinality(J))
       /\ value <= 1000

\* C20: for a job with description text, score returns 50.0 when the
\* description yields no keyword and otherwise min(100.0, round(100 * |J \cap
\* C| / |J|, 1)); the result is within [0.0, 100.0].
C20_MatchScoreRule ==
  (returned = "score" /\ scored_job.description_text # "") =>
    /\ DocumentedMatch(match, JobTerms(scored_job.description_text),
                       CandidateTerms(profile))
    /\ match \in 0..1000

\* two of three terms matched: 66.666... has been rounded to 66.7
C20_Witness ==
  /\ returned = "score"
  /\ match = 667
  /\ Cardinality(JobTerms(scored_job.description_text)) = 3
  /\ Cardinality(JobTerms(scored_job.description_text)
                   \cap CandidateTerms(profile)) = 2

\* C13: select never mutates the profile: every field of the profile is after
\* a call what it was before the call.
C13_SelectLeavesProfile ==
  [][Len(selections') > Len(selections) => profile' = profile]_vars

\* select has returned, nothing was modified since, and in one experience
\* entry the best bullet is not the first bullet of the profile
C13_Witness ==
  /\ ~edited
  /\ selections # <<>>
  /\ \E e \in 1..Len(selections[1].experience) :
       /\ selections[1].experience[e].bullets # <<>>
       /\ selections[1].experience[e].bullets[1] # Shared("bullet", e, 1)

\* the results that read differently after a step
Disturbed ==
  {k \in 1..Len(selections) :
     Seen(profile', selections'[k]) # Seen(profile, selections[k])}

\* C14: a SelectedContent shares no mutable structure with the profile or
\* with another result: when a caller modifies what one result holds, the
\* profile and every other result read as before.
C14_ResultsShareNothing ==
  [][(edited' /\ ~edited) =>
       /\ profile' = profile
       /\ Cardinality(Disturbed) <= 1]_vars

\* s.startswith(prefix)
StartsWith(s, prefix) ==
  Len(s) >= Len(prefix) /\ SubSeq(s, 1, Len(prefix)) = prefix

\* the kind of a suggestion by its wording: 1 keyword, 2 section, 3 density,
\* 4 experience, 5 formatting, 6 overall assessment, 0 none of these
SuggestionKind(s) ==
  CASE s \in {GOOD_SCORE, MODERATE_SCORE, LOW_SCORE} -> 6
    [] \/ StartsWith(s, "CRITICAL: Add these missing high-priority keywords: ")
       \/ StartsWith(s, "Add these missing keywords if applicable: ")
       \/ StartsWith(s, "Consider adding: ") -> 1
    [] \/ StartsWith(s, "Your resume is missing key sections.")
       \/ StartsWith(s, "Consider adding Certifications or Projects") -> 2
    [] \/ StartsWith(s, "Keywords appear too infrequently.")
       \/ StartsWith(s, "Increase keyword usage") -> 3
    [] \/ StartsWith(s, "Your experience bullets")
       \/ StartsWith(s, "Improve experience relevance") -> 4
    [] StartsWith(s, "Formatting: ") -> 5
    [] OTHER -> 0

\* the closing text documented for an overall score
DocumentedAssessment(overall) ==
  IF overall >= 80 THEN GOOD_SCORE
  ELSE IF 60 <= overall /\ overall < 80 THEN MODERATE_SCORE
  ELSE LOW_SCORE

\* C15: generate_suggestions returns a non-empty list whose last element is
\* the one overall assessment (good from 80, moderate from 60 to 79, low
\* below); the keyword, section, density, experience and formatting
\* suggestions come before it, in that order.
C15_OneClosingAssessment ==
  suggested =>
    /\ suggestions # <<>>
    /\ suggestions[Len(suggestions)]
         = DocumentedAssessment(score_result.overall_score)
    /\ \A k \in 1..(Len(suggestions) - 1) :
         /\ SuggestionKind(suggestions[k]) \in 1..5
         /\ \A j \in 1..(k - 1) :
              SuggestionKind(suggestions[j]) <= SuggestionKind(suggestions[k])

\* a low score with suggestions of all five kinds before the assessment
C15_Witness ==
  /\ suggested
  /\ score_result.overall_score < 60
  /\ {SuggestionKind(suggestions[k]) : k \in 1..Len(suggestions)} = 1..6
  /\ suggestions[Len(suggestions)] = LOW_SCORE

\* the importance documented for a keyword first found at offset p with the
\* text's midpoint mid and frequency f
DocumentedImportance(p, mid, f) ==
  IF p < mid THEN "high"
  ELSE CASE f >= 3 -> "high"
         [] f = 2  -> "medium"
         [] f = 1  -> "low"

\* the alias spellings of a canonical form that are written in a text
WrittenAs(canonical, t) ==
  {k \in AliasKeys : AliasGet(k, "") = canonical /\ contains(lower(t), k)}

\* C16: a keyword whose canonical form is not in the text verbatim
\* (case-insensitively) is weighed by the offset of its surface form as
\* written; an alias written once, at or after the midpoint, gets low.
C16_SurfaceFormOffset ==
  called = "extract_keywords_with_importance" =>
    \A k \in 1..Len(weighted) :
      (/\ ~contains(lower(text), lower(weighted[k].keyword))
       /\ Cardinality(WrittenAs(weighted[k].keyword, text)) = 1) =>
        weighted[k].importance
          = DocumentedImportance(
              find(lower(text),
                   CHOOSE a \in WrittenAs(weighted[k].keyword, text) : TRUE),
              Len(text) \div 2, weighted[k].frequency)

\* C17: a keyword whose canonical form is found in the text at offset p is
\* high if p is before the midpoint; otherwise high from frequency 3, medium
\* at 2, low at 1.  Importance is always high, medium or low.
C17_ImportanceRule ==
  called = "extract_keywords_with_importance" =>
    \A k \in 1..Len(weighted) :
      /\ weighted[k].importance \in {"high", "medium", "low"}
      /\ find(lower(text), lower(weighted[k].keyword)) # -1 =>
           weighted[k].importance
             = DocumentedImportance(
                 find(lower(text), lower(weighted[k].keyword)),
                 Len(text) \div 2, weighted[k].frequency)

\* a keyword first found in the second half, counted twice, is medium
C17_Witness ==
  /\ called = "extract_keywords_with_importance"
  /\ \E k \in 1..Len(weighted) :
       /\ find(lower(text), lower(weighted[k].keyword)) >= Len(text) \div 2
       /\ weighted[k].frequency = 2
       /\ weighted[k].importance = "medium"

\* the occurrences of all matched keywords in a resume, case-insensitively
TotalOccurrences(resume, matched) ==
  SumOf([k \in 1..Len(matched) |-> count(lower(resume), lower(matched[k]))],
        1..Len(matched))

\* the documented density score for occ occurrences in a resume of words
\* words, d = occ / words
DocumentedDensity(occ, words) ==
  CASE 100 * occ < words                                    -> 40
    [] words <= 100 * occ /\ 100 * occ <= 3 * words         -> 80
    [] 3 * words < 100 * occ /\ 100 * occ <= 6 * words      -> 100
    [] 6 * words < 100 * occ /\ 100 * occ <= 10 * words     -> 80
    [] 10 * words < 100 * occ                               -> 50

TriggeredPenalties(resume) ==
  (IF word_count(resume) < 150 THEN <<[points |-> 20, issue |-> "Resume too short ("]>>
   ELSE IF word_count(resume) > 1200 THEN <<[points |-> 10, issue |-> "Resume too long ("]>>
   ELSE <<>>)
  \o (IF has_email(resume) THEN <<>>
      ELSE <<[points |-> 10, issue |-> "No email address found"]>>)
  \o (IF has_phone(resume) THEN <<>>
      ELSE <<[points |-> 5, issue |-> "No phone number found"]>>)
  \o (IF has_bullets(resume) THEN <<>>
      ELSE <<[points |-> 10, issue |-> "No bullet points found"]>>)
  \o (IF has_dates(resume) THEN <<>>
      ELSE <<[points |-> 10, issue |-> "No dates found"]>>)

\* a formatting result is the documented one for these penalties
PenaltiesApplied(penalties, outcome) ==
  LET P == SumOf([k \in 1..Len(penalties) |-> penalties[k].points],
                 1..Len(penalties))
  IN  /\ outcome.score = (IF 100 - P > 0 THEN 100 - P ELSE 0)
      /\ Len(outcome.issues) = Len(penalties)
      /\ \A k \in 1..Len(penalties) :
           StartsWith(outcome.issues[k], penalties[k].issue)
      /\ outcome.score = 100 <=> outcome.issues = <<>>

\* C19: the formatting score is max(0, 100 - P), P the sum of the triggered
\* penalties (20 under 150 words, else 10 over 1200; 10 no email; 5 no phone;
\* 10 no bullet marker; 10 no 20xx year); formatting_issues holds one string
\* per triggered penalty in check order; the score is 100 iff there is no
\* issue.
C19_FormattingPenalties ==
  "formatting" \in components =>
    PenaltiesApplied(TriggeredPenalties(measured.resume_text), formatting)

\* a resume of more than 1200 words without a phone number: 85, two issues
C19_Witness ==
  /\ "formatting" \in components
  /\ word_count(measured.resume_text) > 1200
  /\ formatting.score = 85
  /\ Len(formatting.issues) = 2
  /\ StartsWith(formatting.issues[2], "No phone number")

\* the JD keyword set a SelectedContent was selected for
TargetSet(content) ==
  {lower(content.target_keywords[k]) : k \in 1..Len(content.target_keywords)}

\* relevance of a skill name: 10 if its normalized lowercased form is a JD
\* keyword
DocumentedRelevance(name, J) ==
  IF lower(normalize_keyword(name)) \in J THEN 10 ELSE 0

\* weight of a skill item: Expert 3, Advanced 2, otherwise 1
DocumentedProficiency(item) ==
  IF "proficiency" \in DOMAIN item /\ item.proficiency = "Expert" THEN 3
  ELSE IF "proficiency" \in DOMAIN item /\ item.proficiency = "Advanced" THEN 2
  ELSE 1

\* skills is the list of the names of items, by scores descending and then
\* by name ascending, cut to max_skills: the k-th name belongs to an item
\* that fewer than k items precede and that does not precede k or more
SkillsRanked(skills, items, scores, max_skills) ==
  LET n == Len(items)
      Precedes(j, i) ==
        \/ scores[j] > scores[i]
        \/ scores[j] = scores[i] /\ str_less(items[j].name, items[i].name)
  IN  /\ Len(skills) = (IF max_skills < n THEN max_skills ELSE n)
      /\ \A k \in 1..Len(skills) :
           \E i \in 1..n :
             /\ items[i].name = skills[k]
             /\ Cardinality({j \in 1..n : Precedes(j, i)}) < k
             /\ k <= Cardinality({j \in 1..n : ~Precedes(i, j)})

\* in skills every JD-matching name comes before every other name, and when
\* no item matches the JD the weights of the named items never increase
SkillsGrouped(skills, items, J) ==
  /\ \A k, l \in 1..Len(skills) :
       k < l /\ DocumentedRelevance(skills[l], J) = 10
         => DocumentedRelevance(skills[k], J) = 10
  /\ (\A i \in 1..Len(items) : DocumentedRelevance(items[i].name, J) = 0)
       => \A k, l \in 1..Len(skills) :
            k < l =>
              \E i, j \in 1..Len(items) :
                /\ items[i].name = skills[k] /\ items[j].name = skills[l]
                /\ DocumentedProficiency(items[i]) >= DocumentedProficiency(items[j])

\* C21: select returns the names of all skill items sorted by relevance +
\* proficiency weight descending, then by name ascending, cut to max_skills;
\* so len(skills) <= max_skills, JD-matching skills come first, and with no
\* match the order is by weight.
C21_SkillsRanked ==
  ~edited =>
    \A s \in 1..Len(selections) :
      /\ SkillsRanked(
           selections[s].skills, skill_items(profile),
           List([i \in 1..Len(skill_items(profile)) |->
                   DocumentedRelevance(skill_items(profile)[i].name,
                                       TargetSet(selections[s]))
                     + DocumentedProficiency(skill_items(profile)[i])]),
           select_args.max_skills)
      /\ Len(selections[s].skills) <= select_args.max_skills
      /\ SkillsGrouped(selections[s].skills, skill_items(profile),
                       TargetSet(selections[s]))

\* a profile of more than max_skills skills was cut to max_skills > 1 names,
\* the first a JD keyword, the last not
C21_Witness ==
  /\ ~edited /\ Len(selections) > 0
  /\ select_args.max_skills > 1
  /\ Len(skill_items(profile)) > select_args.max_skills
  /\ Len(selections[1].skills) = select_args.max_skills
  /\ DocumentedRelevance(selections[1].skills[1], TargetSet(selections[1])) = 10
  /\ DocumentedRelevance(selections[1].skills[select_args.max_skills],
                         TargetSet(selections[1])) = 0

\* the number of the words of a summary's target role found in the
\* lowercased JD
RoleCount(summary_item, jd_text_) ==
  contained_count(split(lower(Get(summary_item, "target_role", ""))),
                  lower(jd_text_))

\* the text of the first summary of the highest count, "" without summaries
DocumentedSummary(summaries, counts) ==
  IF summaries = <<>> THEN ""
  ELSE LET best == CHOOSE k \in 1..Len(summaries) :
                     /\ \A j \in 1..Len(summaries) : counts[j] <= counts[k]
                     /\ \A j \in 1..(k - 1) : counts[j] < counts[k]
       IN  strip(Get(summaries[best], "text", ""))

\* C22: the summary select returns is the (trimmed) text of the summary whose
\* target-role words occur most often in the lowercased JD, the first one on
\* a tie, "" if there is no summary; also when that text is empty and an
\* earlier summary's is not.
C22_BestSummaryText ==
  ~edited =>
    \A s \in 1..Len(selections) :
      selections[s].summary =
        DocumentedSummary(
          Get(profile, "summaries", <<>>),
          List([k \in 1..Len(Get(profile, "summaries", <<>>)) |->
                  RoleCount(Get(profile, "summaries", <<>>)[k],
                            select_args.jd_text)]))

\* the bullets of an output entry are the first max_bullets of the entry's
\* own bullets by scores descending, equal scores in their original order
BulletsRanked(refs, e, scores, max_bullets) ==
  LET n == Len(scores)
  IN  /\ Len(refs) = (IF max_bullets < n THEN max_bullets ELSE n)
      /\ \A k \in 1..Len(refs) :
           /\ refs[k].kind = "bullet" /\ refs[k].i = e
           /\ refs[k].j \in 1..n
           /\ Cardinality({b \in 1..n :
                 \/ scores[b] > scores[refs[k].j]
                 \/ scores[b] = scores[refs[k].j] /\ b < refs[k].j}) = k - 1
      /\ \A k \in 1..Len(refs) :
           \A b \in (1..n) \ {refs[l].j : l \in 1..Len(refs)} :
             scores[b] <= scores[refs[k].j]

\* score of a bullet: twice its lowercased tags in the JD keyword set, plus
\* the JD keywords that occur in its lowercased text
DocumentedBulletScore(bullet, J) ==
  2 * Cardinality({t \in J : \E k \in 1..Len(Get(bullet, "tags", <<>>)) :
                     lower(bullet.tags[k]) = t})
    + Cardinality({kw \in J : contains(lower(Get(bullet, "text", "")), kw)})

\* an output entry stands for the profile's entry
EntryKept(out, exp, e, J, max_bullets) ==
  /\ out.company = exp.company /\ out.title = exp.title
  /\ BulletsRanked(
       out.bullets, e,
       List([b \in 1..Len(Get(exp, "bullets", <<>>)) |->
               DocumentedBulletScore(exp.bullets[b], J)]),
       max_bullets)
  /\ Len(out.bullets) <= max_bullets

\* C23: select returns one experience entry per profile entry, in profile
\* order; its bullets are the first max_bullets_per_role of the entry's own
\* bullets by score descending, ties in original order; so no list is
\* longer than max_bullets_per_role and no omitted bullet outscores a kept
\* one.
C23_ExperienceKept ==
  ~edited =>
    \A s \in 1..Len(selections) :
      /\ Len(selections[s].experience) = Len(Get(profile, "experience", <<>>))
      /\ \A e \in 1..Len(selections[s].experience) :
           EntryKept(selections[s].experience[e], profile.experience[e], e,
                     TargetSet(selections[s]),
                     select_args.max_bullets_per_role)

\* an entry of more bullets than max_bullets_per_role > 1 was trimmed, and a
\* later bullet of the entry went before its first
C23_Witness ==
  /\ ~edited /\ Len(selections) > 0
  /\ select_args.max_bullets_per_role > 1
  /\ \E e \in 1..Len(selections[1].experience) :
       /\ Len(Get(profile.experience[e], "bullets", <<>>))
            > select_args.max_bullets_per_role
       /\ Len(selections[1].experience[e].bullets)
            = select_args.max_bullets_per_role
       /\ selections[1].experience[e].bullets[1].j > 1
       /\ \E k \in 2..Len(selections[1].experience[e].bullets) :
            selections[1].experience[e].bullets[k].j = 1

\* the jobs of a list that a marking picks, in the order of the list
Marked(seq, marks) ==
  LET Nth(k) == CHOOSE i \in marks : Cardinality({j \in marks : j < i}) = k - 1
  IN  List([k \in 1..Cardinality(marks) |-> seq[Nth(k)]])

\* the fuzzy ratio of two keys is below the threshold
RatioBelow(a, b, threshold) ==
  200 * lcs_length(a, b) < threshold * (Len(a) + Len(b))

\* job i of new_jobs, processed after the unique jobs marked before it, is
\* neither their duplicate nor the duplicate of an existing URL
NewWhenProcessed(new_jobs, i, marks, existing, threshold) ==
  /\ \A u \in existing : _normalize_url(u) # _normalize_url(new_jobs[i].url)
  /\ \A j \in {j \in marks : j < i} :
       /\ _normalize_url(new_jobs[j].url) # _normalize_url(new_jobs[i].url)
       /\ RatioBelow(lower(new_jobs[i].title) \o "|" \o lower(new_jobs[i].company),
                     lower(new_jobs[j].title) \o "|" \o lower(new_jobs[j].company),
                     threshold)

C25_ListingParameterKept ==
  (/\ stage = "deduplicated"
   /\ all_jobs = INDEED_JOBS
   /\ existing_urls = {}
   /\ RatioBelow(title_company_key(all_jobs[1]), title_company_key(all_jobs[2]),
                 fuzzy_threshold))
    => /\ _normalize_url(all_jobs[1].url) # _normalize_url(all_jobs[2].url)
       /\ unique_jobs = all_jobs
       /\ duplicates = <<>>

\* the number of entries of errors that start with a prefix
ErrorsFrom(errors, prefix) ==
  Cardinality({k \in 1..Len(errors) : StartsWith(errors[k], prefix)})

\* the positions of the calls of a kind in the order they were made
CallsOf(kind) == {k \in 1..Len(calls) : calls[k].call = kind}

\* C26: after run, jobs_discovered = jobs_new + jobs_duplicates, jobs_scored
\* <= jobs_new, resumes_generated <= jobs_scored, and every scored job has
\* either incremented resumes_generated or added an "Error processing" entry
\* to errors.
C26_CountersAddUp ==
  stage = "returned" =>
    /\ pipeline_result.jobs_discovered
         = pipeline_result.jobs_new + pipeline_result.jobs_duplicates
    /\ pipeline_result.jobs_scored <= pipeline_result.jobs_new
    /\ pipeline_result.resumes_generated <= pipeline_result.jobs_scored
    /\ pipeline_result.jobs_scored
         = pipeline_result.resumes_generated
             + ErrorsFrom(pipeline_result.errors, "Error processing ")
    /\ \A j \in 1..Len(scored_jobs) :
         (\E k \in CallsOf("generate_resume") :
            calls[k].job = scored_jobs[j][1])
           # (\E k \in 1..Len(pipeline_result.errors) :
                StartsWith(pipeline_result.errors[k],
                           "Error processing " \o scored_jobs[j][1].title
                             \o " @ " \o scored_jobs[j][1].company \o ":"))

\* a run has returned that found duplicates, scored fewer jobs than were
\* new, and generated fewer resumes than it scored jobs
C26_Witness ==
  /\ stage = "returned"
  /\ pipeline_result.jobs_duplicates > 0
  /\ pipeline_result.jobs_scored < pipeline_result.jobs_new
  /\ 0 < pipeline_result.resumes_generated
  /\ pipeline_result.resumes_generated < pipeline_result.jobs_scored

\* the drivers whose is_available or search raises
Failing == {d \in 1..Len(drivers) :
              \/ drivers[d].is_available = "raises"
              \/ /\ drivers[d].is_available = "True"
                 /\ drivers[d].searching = "raises"}

\* the jobs of the drivers that are available and whose search returns, in
\* list order
RECURSIVE Collected(_)
Collected(d) ==
  IF d = 0 THEN <<>>
  ELSE Collected(d - 1)
         \o (IF drivers[d].is_available = "True"
                /\ drivers[d].searching = "returns"
             THEN drivers[d].found ELSE <<>>)

\* C27: a driver whose is_available or search raises adds exactly one error
\* string for that driver; the other drivers are still queried, in list
\* order; the jobs of the other drivers are deduplicated, scored and given
\* resumes; run returns; an unavailable driver is skipped, with no search
\* call and no error.
C27_DriverFailureIsolated ==
  stage # "discover" =>
    /\ \A name \in {drivers[d].name : d \in 1..Len(drivers)} :
         ErrorsFrom(pipeline_result.errors, name \o " search error: ")
           = Cardinality({d \in Failing : drivers[d].name = name})
    /\ Cardinality(CallsOf("is_available")) = Len(drivers)
    /\ \A k, l \in CallsOf("is_available") :
         k < l <=> calls[k].driver < calls[l].driver
    /\ \A d \in 1..Len(drivers) :
         (\E k \in CallsOf("search") : calls[k].driver = d)
           <=> drivers[d].is_available = "True"
    /\ all_jobs = Collected(Len(drivers))
    /\ pipeline_result.jobs_discovered = Len(all_jobs)
    /\ Len(unique_jobs) + Len(duplicates) = Len(all_jobs)
    /\ stage = "returned" =>
         \A j \in 1..Len(unique_jobs) :
           JobProfileScorer_score(unique_jobs[j], profile) >= min_score
             => \/ \E k \in CallsOf("generate_resume") :
                     calls[k].job = unique_jobs[j]
                \/ ErrorsFrom(pipeline_result.errors, "Error processing ") > 0

\* a run has returned whose first driver raised and whose second answered;
\* a resume was generated for every job of the second driver
C27_Witness ==
  /\ stage = "returned"
  /\ Len(drivers) = 2 /\ 1 \in Failing /\ 2 \notin Failing
  /\ drivers[2].is_available = "True"
  /\ Len(pipeline_result.errors) = 1
  /\ pipeline_result.resumes_generated = Len(unique_jobs)
  /\ pipeline_result.resumes_generated > 0

\* the apply call made for a job, 0 if there is none
ApplyCallFor(job) ==
  IF \E k \in CallsOf("apply") : calls[k].job = job
  THEN SetMin({k \in CallsOf("apply") : calls[k].job = job})
  ELSE 0

\* the jobs a resume was generated for
Generated == {calls[k].job : k \in CallsOf("generate_resume")}

\* C28: apply is called for a job only if auto_apply is true, only after the
\* job's resume was generated, at most once per job, on a driver whose
\* driver_name is the job's source; with auto_apply false the two
\* application counters stay 0; with auto_apply true each generated resume
\* leads to exactly one of applications_submitted + 1 (status submitted or
\* stub_submitted), applications_failed + 1 (another status, or apply
\* raised, which also records an error), or a "No driver for source" error;
\* so applications_submitted + applications_failed <= resumes_generated.
C28_ApplicationsAccounted ==
  /\ \A k \in CallsOf("apply") :
       /\ auto_apply
       /\ \E g \in CallsOf("generate_resume") :
            g < k /\ calls[g].job = calls[k].job
       /\ \A l \in CallsOf("apply") : calls[l].job = calls[k].job => l = k
       /\ drivers[calls[k].driver].name = calls[k].job.source
  /\ ~auto_apply =>
       /\ pipeline_result.applications_submitted = 0
       /\ pipeline_result.applications_failed = 0
  /\ auto_apply =>
       /\ pipeline_result.applications_submitted
            = Cardinality({job \in Generated :
                /\ ApplyCallFor(job) # 0
                /\ drivers[calls[ApplyCallFor(job)].driver].applying
                     \in {"submitted", "stub_submitted"}})
       /\ pipeline_result.applications_failed
            = Cardinality({job \in Generated :
                /\ ApplyCallFor(job) # 0
                /\ drivers[calls[ApplyCallFor(job)].driver].applying
                     \notin {"submitted", "stub_submitted"}})
       /\ ErrorsFrom(pipeline_result.errors, "Apply error for ")
            = Cardinality({job \in Generated :
                /\ ApplyCallFor(job) # 0
                /\ drivers[calls[ApplyCallFor(job)].driver].applying
                     = "raises"})
       /\ ErrorsFrom(pipeline_result.errors, "No driver for source: ")
            = Cardinality({job \in Generated : ApplyCallFor(job) = 0})
       /\ \A job \in Generated :
            ApplyCallFor(job) = 0
              <=> \A d \in 1..Len(drivers) : drivers[d].name # job.source
  /\ pipeline_result.applications_submitted
       + pipeline_result.applications_failed
       <= pipeline_result.resumes_generated

\* a run with auto_apply has returned that submitted an application, failed
\* with another because apply raised, and found no driver for a third job
C28_Witness ==
  /\ stage = "returned" /\ auto_apply
  /\ pipeline_result.applications_submitted > 0
  /\ pipeline_result.applications_failed > 0
  /\ ErrorsFrom(pipeline_result.errors, "Apply error for ") > 0
  /\ ErrorsFrom(pipeline_result.errors, "No driver for source: ") > 0
  /\ pipeline_result.applications_submitted
       + pipeline_result.applications_failed
       < pipeline_result.resumes_generated

\* the values _score_keyword_density returns for a resume that holds words
DENSITY_SCORES == {40, 50, 80, 100}

\* C29: the keyword_density of every ScoreResult returned by ATSScorer.score
\* is one of 40, 50, 80 and 100, never 0: when the list of matched keywords
\* is not empty, each of them is longer than one character and occurs in the
\* lowercased resume, so the resume holds at least one word.
C29_DensityNeverZero ==
  scored >= 1 =>
    /\ result.breakdown.keyword_density \in DENSITY_SCORES
    /\ result.breakdown.keyword_density # 0
    /\ \A k \in 1..Len(result.matched_keywords) :
         /\ Len(result.matched_keywords[k]) > 1
         /\ contains(lower(resume_text), lower(result.matched_keywords[k]))
    /\ result.matched_keywords # <<>> => word_count(resume_text) > 0

\* a resume of a single word was scored and that word is a matched keyword
C29_Witness ==
  /\ scored >= 1
  /\ result.matched_keywords # <<>>
  /\ word_count(resume_text) = 1
  /\ result.breakdown.keyword_density = 50

\* the two texts of the density block of generate_suggestions
SPARSE_WARNING ==
  "Keywords appear too infrequently. Naturally weave them into your experience bullet points and summary."

INCREASE_USAGE ==
  "Increase keyword usage by incorporating relevant terms into your experience descriptions and achievements."

\* how often a text occurs in the list of suggestions
TimesSuggested(t) == Cardinality({k \in 1..Len(suggestions) : suggestions[k] = t})

\* C30: generate_suggestions emits exactly one density suggestion when
\* keyword_density < 70, the sparse-usage warning if it is < 50 and the
\* "Increase keyword usage" suggestion otherwise, and none when
\* keyword_density >= 70, whatever keyword_match is; a density of 50 gets the
\* "Increase keyword usage" suggestion.
C30_OneDensitySuggestion ==
  suggested =>
    /\ TimesSuggested(SPARSE_WARNING)
         = (IF score_result.breakdown.keyword_density < 50 THEN 1 ELSE 0)
    /\ TimesSuggested(INCREASE_USAGE)
         = (IF /\ score_result.breakdown.keyword_density >= 50
               /\ score_result.breakdown.keyword_density < 70
            THEN 1 ELSE 0)
    /\ TimesSuggested(SPARSE_WARNING) + TimesSuggested(INCREASE_USAGE)
         = (IF score_result.breakdown.keyword_density < 70 THEN 1 ELSE 0)
    /\ score_result.breakdown.keyword_density = 50
         => TimesSuggested(INCREASE_USAGE) = 1

\* suggestions were made for a result of density 50 and a keyword_match
\* above 80, and they tell to increase keyword usage
C30_Witness ==
  /\ suggested
  /\ score_result.breakdown.keyword_density = 50
  /\ score_result.breakdown.keyword_match > 80
  /\ TimesSuggested(INCREASE_USAGE) = 1
  /\ TimesSuggested(SPARSE_WARNING) = 0

====
